---- MODULE Spec2Model ----
(***************************************************************************)
(* Model of tek-s3: the account lifecycle driven by Steam CM callbacks,    *)
(* the catalog of apps and depots, depot-key harvesting, the event loop's  *)
(* wake-up handler, and the HTTP front-end with the manifest request code  *)
(* (MRC) cache and its round-robin account selection.                      *)
(*                                                                         *)
(* Threads: the libwebsockets event loop (HTTP handlers, timers, the       *)
(* EVENT_WAIT_CANCELLED handler) and the CM library thread (cb_* below).   *)
(* Every catalog access is made under state.manifest_mtx, so a handler's   *)
(* catalog section is one atomic step.                                     *)
(***************************************************************************)
EXTENDS Integers, Sequences, FiniteSets, TLC

\* ------------------------------------------------------------------ bounds

\* Steam IDs of the round-robin scenario (three owners of one depot).
RRAccs == {1, 2, 3}
\* App and depot IDs known to Steam in the model.
AppIds == {1}
DepotIds == {10, 11}
\* Manifest IDs requested over /mrc.
ManifestIds == {100, 101, 102, 103}
\* The one manifest ID requested in the lifecycle specification.
LifecycleManifestIds == {100}
\* Longest selection history kept per depot since its last mutation.
MaxSel == 4
\* Capacity of the MRC cache; stands for the 128 of server.cpp:468, scaled
\* so that overflow is reached.
MrcCacheCap == 2
\* Wall-clock seconds covered by the TTL specification: two refresh periods.
MaxNow == 620
\* The fixed wall-clock second of the specifications without a clock.
T0 == 1000
\* Sign-in sessions opened one after the other.
MaxSessions == 2
\* Codes a client submits after one confirmation request.
MaxCodes == 2
\* Messages written to the client of one session.
MaxSent == 2
\* HTTP connections that send a manifest at once.
MaxSends == 2
\* Bytes of manifest body a packet carries; stands for tx_size, scaled.
TxSize == 1
\* Most bytes of body that fit behind the headers of the first packet.
MaxRoom == 3
\* Most references the download lock is followed to.
MaxRefs == 3
\* The largest depot id of the burst specification: depots 10 to MaxDepot,
\* one more than a burst.
MaxDepot == 15
\* Clock units per second; stands for LWS_US_PER_SEC, scaled.
UsPerSec == 2

\* --------------------------------------------------------- program constants

\* Depot-key requests per burst.
DkBurst == 5
\* Steam's MRC refresh period, its phase and the look-ahead, in seconds.
MrcPeriod == 300
MrcPhase == 240
MrcLookahead == 60

\* ------------------------------------------------------------------- state

VARIABLES
  cur_status,      \* state.cur_status: "setup" | "running" | "stopping"
  accounts,        \* state.accounts: steam id -> account record
  apps,            \* state.apps: app id -> [name, depots: depot id -> depot]
  depot_keys,      \* state.depot_keys: the depot ids that have a key
  num_ready_accs,  \* state.num_ready_accs
  manifest_dirty,  \* state.manifest_dirty
  state_dirty,     \* state.state_dirty
  timestamp,       \* state.timestamp
  manifest,        \* state.manifest / manifest_bin: the serialized catalog
  state_file,      \* the last state file written
  exit_code,       \* state.exit_code
  num_cm_connections, \* state.num_cm_connections
  mrcs,            \* state.mrcs: manifest id -> [mrc, us, frac, rem]: sul.us
                   \*   is second us plus frac clock units, rem is the
                   \*   rem_time of the insertion; its sul is in suls
  suls,            \* manifest ids whose removal job is scheduled in lws
  mrc_order,       \* history: manifest ids in the order they were inserted
  mrc_evicted,     \* history: the last eviction forced by the capacity
  sel,             \* history: <<app, depot>> -> accounts selected since the
                   \*   depot's accs was last mutated
  wake,            \* an lws_cancel_service is pending
  proc,            \* "run": ts3_run loops; "exited": the libwebsockets
                   \*   context is destroyed; "crashed": the process died
  now,             \* wall clock, seconds
  usec,            \* lws_now_usecs(): the clock units elapsed in second now
  http_bufs,       \* sizes of the buffers of state.manifest and
                   \*   state.manifest_bin: plain, deflate, br, zstd (0: none)
  s_ctx,           \* session.s_ctx of the /signin WebSocket session: the
                   \*   signin_ctx, the connection and what was written
  entry,           \* the mrc_await_entry of the /mrc handler: the request
                   \*   the event loop waits for, then (history) its result
  download_lock,   \* state.download_lock: ref_count, and whether the lock
                   \*   holds state.manifest_mtx for the event-loop thread
  sessions,        \* the http_ctx of the HTTP connections: the chunks of
                   \*   session.data still to send and the buffer it spans
  last_http        \* observation: the last HTTP response sent

vars == << cur_status, accounts, apps, depot_keys, num_ready_accs,
           manifest_dirty, state_dirty, timestamp, manifest, state_file,
           exit_code, num_cm_connections, mrcs, suls, mrc_order, mrc_evicted,
           sel, wake, proc, now, usec, http_bufs, s_ctx, entry, download_lock,
           sessions, last_http >>

\* ----------------------------------------------------------------- helpers

Min(S) == CHOOSE x \in S : \A y \in S : x <= y

RECURSIVE SortedSeq(_)
\* The elements of a finite set of integers in increasing order.
SortedSeq(S) ==
  IF S = {} THEN << >> ELSE << Min(S) >> \o SortedSeq(S \ {Min(S)})

Range(s) == { s[i] : i \in 1..Len(s) }

\* std::erase(vec, x): the sequence without the elements equal to x.
SeqErase(s, x) == SelectSeq(s, LAMBDA y : y # x)

\* Restriction of a function to a subset of its domain (map erase).
Restrict(f, D) == [ x \in D |-> f[x] ]

\* f with key k mapped to v (map emplace / operator[]).
MapPut(f, k, v) == [ x \in (DOMAIN f) \cup {k} |-> IF x = k THEN v ELSE f[x] ]

EmptyMap == [ x \in {} |-> 0 ]

\* ------------------------------------------------------- catalog and files

\* A depot: the owning accounts in insertion order and the cursor next_acc.
\* The cursor is an index: 0 is the value-initialised iterator of a depot
\* that was never given an account, 1..Len(accs) designates an element and
\* Len(accs) + 1 is accs.cend().
Depot(accs, next_acc) == [ accs |-> accs, next_acc |-> next_acc ]

\* depot{} as emplaced by the state-file loader and by try_emplace.
NewDepot == Depot(<< >>, 0)

\* sized_buf with size 0: the manifest was never serialized.
NoBuf == [ built |-> FALSE, apps |-> EmptyMap, depot_keys |-> {} ]

\* No state file was written yet by this process.
NoFile ==
  [ written |-> FALSE, timestamp |-> 0, accounts |-> {}, apps |-> EmptyMap,
    depot_keys |-> {} ]

\* The bundle of manifest-related fields guarded by manifest_mtx.
Bundle(a, k, md, sd, ts, m, sf) ==
  [ apps |-> a, depot_keys |-> k, manifest_dirty |-> md, state_dirty |-> sd,
    timestamp |-> ts, manifest |-> m, state_file |-> sf ]

CurBundle ==
  Bundle(apps, depot_keys, manifest_dirty, state_dirty, timestamp, manifest,
         state_file)

\* The content both manifest views serialize: per app its name and depot
\* ids, and the depot ids that have a key.
Serialize(a, k) ==
  [ built |-> TRUE,
    apps |-> [ x \in DOMAIN a |->
                 [ name |-> a[x].name, depots |-> DOMAIN a[x].depots ] ],
    depot_keys |-> k ]

\* The state JSON with the token of every account.
StateJsonAllTokens(B, accs) ==
  [ written |-> TRUE, timestamp |-> B.timestamp, accounts |-> DOMAIN accs,
    apps |-> [ x \in DOMAIN B.apps |-> DOMAIN B.apps[x].depots ],
    depot_keys |-> B.depot_keys ]

\* The state JSON: timestamp, the tokens of the accounts not marked for
\* removal, the depot ids per app, the depot keys.
StateJson(B, accs) ==
  [ written |-> TRUE, timestamp |-> B.timestamp,
    accounts |-> { s \in DOMAIN accs : accs[s].rem_status = "none" },
    apps |-> [ x \in DOMAIN B.apps |-> DOMAIN B.apps[x].depots ],
    depot_keys |-> B.depot_keys ]

\* An update_manifest() that regenerates the buffers only when dirty.
update_manifest_only_dirty(B, accs, t, saved) ==
  LET B1 == IF B.manifest_dirty
              THEN [ B EXCEPT !.state_dirty = TRUE, !.manifest_dirty = FALSE,
                              !.timestamp = t,
                              !.manifest = Serialize(B.apps, B.depot_keys) ]
              ELSE B
  IN IF B1.state_dirty
       THEN [ B1 EXCEPT !.state_dirty = FALSE,
                        !.state_file = IF saved THEN StateJson(B1, accs)
                                                ELSE @ ]
       ELSE B1

\* update_manifest(): regenerate the buffers when dirty or never built,
\* then write the state file when it is dirty; saved tells whether the
\* file could be opened and written.
update_manifest_saving(B, accs, t, saved) ==
  LET rebuild == B.manifest_dirty \/ ~B.manifest.built
      B1 == IF B.manifest_dirty
              THEN [ B EXCEPT !.state_dirty = TRUE, !.manifest_dirty = FALSE,
                              !.timestamp = t ]
              ELSE B
      B2 == IF rebuild
              THEN [ B1 EXCEPT !.manifest = Serialize(B1.apps, B1.depot_keys) ]
              ELSE B1
  IN IF B2.state_dirty
       THEN [ B2 EXCEPT !.state_dirty = FALSE,
                        !.state_file = IF saved THEN StateJson(B2, accs)
                                                ELSE @ ]
       ELSE B2

\* update_manifest() when the state file can be written.
update_manifest(B, accs, t) == update_manifest_saving(B, accs, t, TRUE)

\* The depots of an app that still have an owning account.
OwnedDepots(app) == { d \in DOMAIN app.depots : app.depots[d].accs # << >> }

\* std::erase_if(app.depots, accs.empty()) for every app, then
\* std::erase_if(state.apps, depots.empty()); the flag says whether any
\* element was erased.
EraseEmpty(a) ==
  LET a1 == [ x \in DOMAIN a |->
                [ a[x] EXCEPT !.depots = Restrict(a[x].depots, OwnedDepots(a[x])) ] ]
      keep == { x \in DOMAIN a1 : DOMAIN a1[x].depots # {} }
      erased == (\E x \in DOMAIN a : OwnedDepots(a[x]) # DOMAIN a[x].depots)
                  \/ keep # DOMAIN a
  IN [ apps |-> Restrict(a1, keep), erased |-> erased ]

\* sync_manifest(): drop depots without accounts and apps without depots,
\* mark the manifest dirty if anything was dropped, update_manifest().
sync_manifest(B, accs, t) ==
  LET e == EraseEmpty(B.apps)
      B1 == [ B EXCEPT !.apps = e.apps,
                       !.manifest_dirty = B.manifest_dirty \/ e.erased ]
  IN update_manifest(B1, accs, t)

\* The selection history after a step: it restarts for a depot whose accs
\* changed or that left the catalog.
HasDepot(a, x, d) == x \in DOMAIN a /\ d \in DOMAIN a[x].depots

SelAfter(a, a2, s) ==
  [ k \in DOMAIN s |->
      IF HasDepot(a, k[1], k[2]) /\ HasDepot(a2, k[1], k[2])
           /\ a[k[1]].depots[k[2]].accs = a2[k[1]].depots[k[2]].accs
        THEN s[k] ELSE << >> ]

\* -------------------------------------------------------------- accounts

\* An account as try_emplace constructs it (state.cpp:176, signin.cpp:245).
\* pc is the state of its CM client: which callback is due next; token is
\* the serial of the sign-in session that produced acc.token (0: the state
\* file).
\* depot_key_requests is the request array as <<app, depot>> pairs (<< >>
\* when null) and dk_sent the indices of its requests Steam has yet to
\* answer; dk_nokey (history) are the depots whose request of the current
\* connection was answered without a key being stored.  renewals counts the
\* tokens cb_token_renewed stored, so that <<token, renewals>> names
\* acc.token and acc.token_info; sul_for names the token_info whose expires
\* acc.sul.us was last computed from (<< >>: never).
NewAccount(renewable) ==
  [ pc |-> "idle", renewable |-> renewable, token |-> 0,
    ren_status |-> "not_scheduled", rem_status |-> "none", ready |-> FALSE,
    depot_ids |-> {}, rem_dk_total |-> 0, rem_dk_burst |-> 0,
    depot_key_requests |-> << >>, dk_sent |-> {}, dk_nokey |-> {},
    pics_apps |-> {}, renewals |-> 0, sul_for |-> << >> ]

\* ctx.token: the empty string, or a token with the tek_sc_cm_parse_auth_token
\* view of it and the serial of the session that obtained it.
NoToken == [ steam_id |-> 0, renewable |-> FALSE, serial |-> 0 ]

\* The /signin session.  conn: "none" (no connection), "open", "closing" (a
\* callback returned non-zero or the kill timeout is set: libwebsockets is
\* about to close), "closed_wait" (LWS_CALLBACK_CLOSED waits on ctx.state).
\* state, type, token are the fields of signin_ctx; msg is msg_size with
\* the content of msg_buf: "none" (0), "close" (-1) or the message pending.
\* cm is the state of ctx.cm_client: "none" (null), "connecting", "auth",
\* "disconnecting", "merging" (cb_auth_disconnected holds ctx.mtx and waits
\* for manifest_mtx), "gone" (disconnected, released or destroyed).  listed:
\* the context is in state.signin_ctxs; writable: lws_callback_on_writable
\* was requested.  History: serial numbers the sessions, closed_by names
\* the callback that made libwebsockets close, rx is the last frame
\* received, final the message cb_auth built on completion, codes the
\* codes submitted since the last confirmation request, sent the messages
\* written to the client, unsent whether msg_buf holds a message that no
\* lws_write has taken yet.
NoCtx ==
  [ conn |-> "none", state |-> "none", type |-> "credentials", msg |-> "none",
    cm |-> "none", token |-> NoToken, listed |-> FALSE, writable |-> FALSE,
    serial |-> 0, closed_by |-> "none", rx |-> "none", final |-> "none",
    codes |-> 0, sent |-> << >>, unsent |-> FALSE ]

\* No /mrc request has waited for a CM reply yet.  st is "none",
\* "waiting" (the handler is in ts3_os_futex_wait) or "done"; finished is
\* entry.finished and result is entry.data.result, which starts as type
\* basic, primary cm_timeout.
Unanswered == [ ok |-> FALSE, type |-> "basic", aux |-> "none" ]

NoEntry ==
  [ st |-> "none", uri |-> "", manifest_id |-> 0, acc |-> 0, finished |-> FALSE,
    result |-> Unanswered, request_code |-> 0 ]

\* ------------------------------------------------------------------ start

\* The state files ts3_init may find: tokens (possibly expired), apps with
\* their depot ids, depot keys.
Token(id, expired) == [ steam_id |-> id, expired |-> expired, renewable |-> FALSE ]

TokenSets ==
  { {}, { Token(1, FALSE), Token(2, FALSE) }, { Token(1, FALSE), Token(2, TRUE) } }

FileApps == { EmptyMap, [ x \in {1} |-> {10} ] }

StateFiles(keysets) ==
  { [ accounts |-> ac, apps |-> ap, depot_keys |-> k, timestamp |-> 0 ] :
      ac \in TokenSets, ap \in FileApps, k \in keysets }

\* The accounts loaded from a state file: tokens not expired at load time.
LoadAccounts(f) ==
  LET ids == { tk.steam_id : tk \in { x \in f.accounts : ~x.expired } }
  IN [ s \in ids |->
         NewAccount(\E tk \in f.accounts : tk.steam_id = s /\ tk.renewable) ]

\* The apps loaded from a state file: every depot starts with no account.
LoadApps(f) ==
  [ x \in DOMAIN f.apps |->
      [ name |-> "", depots |-> [ d \in f.apps[x] |-> NewDepot ] ] ]

\* The capacity has not forced any eviction yet.  An eviction is recorded
\* as the id evicted, the smallest id and the earliest inserted id cached
\* at that moment.
NoEviction == [ id |-> 0, smallest |-> 0, oldest |-> 0 ]

\* No HTTP response was sent yet.
NoResponse ==
  [ uri |-> "", code |-> 0, body |-> "none", acc |-> 0, max_age |-> 0 ]

\* The buffers of a catalog that no codec could shrink: no compressed
\* variant is smaller than the plain one.
PlainBufs == [ plain |-> 2, deflate |-> 2, br |-> 0, zstd |-> 3 ]

\* HTTP connections that can be open at once.
Connections == 1..MaxSends

\* An http_ctx that has nothing left to send, and one whose session.data
\* spans what remains of buffer buf: left packets.
NoSession == [ left |-> 0, buf |-> NoBuf ]
Sending(left, buf) == [ left |-> left, buf |-> buf ]

\* ref_counted_lock: the reference counter, and whether the lock holds the
\* mutex.  lock() takes the mutex when the previous count was zero,
\* unlock() releases it when the new count is zero, force_unlock()
\* releases it if there are references and resets the counter.
Unlocked == [ ref_count |-> 0, locked |-> FALSE ]

lock(l) ==
  [ ref_count |-> l.ref_count + 1,
    locked |-> IF l.ref_count = 0 THEN TRUE ELSE l.locked ]

unlock(l) ==
  [ ref_count |-> l.ref_count - 1,
    locked |-> IF l.ref_count - 1 = 0 THEN FALSE ELSE l.locked ]

force_unlock(l) ==
  [ ref_count |-> 0, locked |-> IF l.ref_count # 0 THEN FALSE ELSE l.locked ]

\* A mutex that never keeps a CM callback thread out.
MtxFreeAlways == TRUE

\* A CM callback thread can take state.manifest_mtx: the event-loop thread
\* holds the recursive mutex between its callbacks only through the
\* download lock.
MtxFree == ~download_lock.locked

\* ts3_init(): load the state file; with no account build the manifest of
\* an empty catalog and run, else connect every account's CM client.
ts3_init(f, t) ==
  LET accs == LoadAccounts(f)
      B0 == Bundle(LoadApps(f), f.depot_keys, FALSE, FALSE, f.timestamp,
                   NoBuf, NoFile)
      B1 == IF DOMAIN accs = {}
              THEN update_manifest(
                     [ B0 EXCEPT !.apps = EmptyMap,
                                 !.manifest_dirty = (DOMAIN B0.apps # {}) ],
                     accs, t)
              ELSE B0
  IN /\ accounts = [ s \in DOMAIN accs |-> [ accs[s] EXCEPT !.pc = "connecting" ] ]
     /\ cur_status = IF DOMAIN accs = {} THEN "running" ELSE "setup"
     /\ apps = B1.apps
     /\ depot_keys = B1.depot_keys
     /\ manifest_dirty = B1.manifest_dirty
     /\ state_dirty = B1.state_dirty
     /\ timestamp = B1.timestamp
     /\ manifest = B1.manifest
     /\ state_file = B1.state_file
     /\ num_ready_accs = 0
     /\ exit_code = 0
     /\ num_cm_connections = 0
     /\ mrcs = EmptyMap
     /\ suls = {}
     /\ mrc_order = << >>
     /\ mrc_evicted = NoEviction
     /\ sel = [ k \in AppIds \X DepotIds |-> << >> ]
     /\ wake = FALSE
     /\ proc = "run"
     /\ usec = 0
     /\ s_ctx = NoCtx
     /\ entry = NoEntry
     /\ download_lock = Unlocked
     /\ sessions = [ c \in Connections |-> NoSession ]
     /\ last_http = NoResponse

\* The lifecycle specification starts from a state file that holds the key
\* of every depot, so that no key is ever requested.
Init ==
  /\ http_bufs = PlainBufs
  /\ now = T0
  /\ \E f \in StateFiles({ DepotIds }) : ts3_init(f, T0)

\* ------------------------------------------------------------- CM results

\* A tek_sc_err: tek_sc_err_success() is primary == ok; type and auxiliary
\* are what the handlers branch on.
Ok == [ ok |-> TRUE, type |-> "basic", aux |-> "none" ]
Err(type, aux) == [ ok |-> FALSE, type |-> type, aux |-> aux ]

SignInResults ==
  { Ok, Err("steam_cm", "access_denied"), Err("steam_cm", "invalid_signature"),
    Err("steam_cm", "service_unavailable"), Err("sub", "cm_timeout") }

RequestResults == { Ok, Err("sub", "cm_timeout") }

KeyResults ==
  { Ok, Err("sub", "cm_timeout"), Err("steam_cm", "blocked"),
    Err("steam_cm", "access_denied"), Err("basic", "none") }

\* The text VDF of an app: whether it parses, common.name, the value of
\* depots.workshopdepot (0: absent or not a number) and the numbered depot
\* children that have a manifests child.
Vdf(ok, name, wd, deps) ==
  [ parse_ok |-> ok, name |-> name, workshopdepot |-> wd, depots |-> deps ]

\* ------------------------------------------------------- shared fragments

\* Assign the manifest-related fields from a bundle and restart the
\* selection history of the depots whose accs changed.
PutBundle(B) ==
  /\ apps' = B.apps
  /\ depot_keys' = B.depot_keys
  /\ manifest_dirty' = B.manifest_dirty
  /\ state_dirty' = B.state_dirty
  /\ timestamp' = B.timestamp
  /\ manifest' = B.manifest
  /\ state_file' = B.state_file
  /\ sel' = SelAfter(apps, B.apps, sel)

KeepBundle ==
  UNCHANGED << apps, depot_keys, manifest_dirty, state_dirty, timestamp,
               manifest, state_file, sel >>

KeepMrc ==
  UNCHANGED << mrcs, suls, mrc_order, mrc_evicted, last_http, now, usec,
               http_bufs, download_lock, sessions, s_ctx, entry >>

\* CM client states in which the connection to the CM server is up.
Connected == { "sign_in", "renew", "lics", "pkg", "tokens", "app_info",
               "online", "disconnecting" }

\* tek_sc_cm_disconnect(client): requests in flight are dropped and the
\* disconnect callback is due.
Disconnecting(acc) ==
  [ acc EXCEPT !.pc = "disconnecting", !.dk_sent = {}, !.dk_nokey = {},
               !.pics_apps = {} ]

\* ------------------------------------------------- connection callbacks

\* Tokens cb_token_renewed stores per account.
MaxRenewals == 1

\* week_bef_exp: acc.token_info.expires - 7 * 24 * 3600, named by the token
\* it is the expiry of; acc.sul.us is set to the lws time of that moment.
week_bef_exp(acc) == << acc.token, acc.renewals >>

\* The renewal statuses cb_token_renewed can leave behind.  ren_status is a
\* plain field that the callback writes without manifest_mtx: when the loop
\* has a wake-up to handle and an earlier request is pending_schedule, the
\* loop's pass may schedule acc.sul around the callback's writes and store
\* scheduled after the callback stored pending_schedule.
RenewRace(acc) ==
  { "pending_schedule" } \cup
    (IF wake /\ proc = "run" /\ acc.ren_status = "pending_schedule"
       THEN { "scheduled" } ELSE {})

\* A renewal that computes the next deadline before it stores the token.
RenewedStale(acc, rs) ==
  [ acc EXCEPT !.renewals = @ + 1, !.sul_for = week_bef_exp(acc),
               !.ren_status = rs ]

\* acc.token = new_token; acc.token_info = token_info; then acc.sul.us from
\* the new expiry and the request to schedule the job.
Renewed(acc, rs) ==
  LET n == [ acc EXCEPT !.renewals = @ + 1 ]
  IN [ n EXCEPT !.sul_for = week_bef_exp(n), !.ren_status = rs ]

\* cb_connected(): a failed connect is fatal; otherwise sign in, after
\* asking the loop to schedule the renewal job of a renewable token that is
\* more than a week from expiry, or renew a token that is closer to it.
cb_connected(a, res, far) ==
  /\ proc # "crashed"
  /\ a \in DOMAIN accounts
  /\ accounts[a].pc = "connecting"
  /\ IF ~res.ok
       THEN /\ exit_code' = 1
            /\ cur_status' = "stopping"
            /\ proc' = "exited"
            /\ accounts' = [ accounts EXCEPT ![a].pc = "idle" ]
            /\ UNCHANGED << num_cm_connections, wake >>
       ELSE /\ num_cm_connections' = num_cm_connections + 1
            /\ IF ~accounts[a].renewable
                 THEN /\ accounts' = [ accounts EXCEPT ![a].pc = "sign_in" ]
                      /\ UNCHANGED wake
                 ELSE IF far
                   THEN /\ accounts' =
                             [ accounts EXCEPT ![a].pc = "sign_in",
                                 ![a].sul_for = week_bef_exp(accounts[a]),
                                 ![a].ren_status = "pending_schedule" ]
                        /\ wake' = TRUE
                   ELSE /\ accounts' = [ accounts EXCEPT ![a].pc = "renew" ]
                        /\ UNCHANGED wake
            /\ UNCHANGED << exit_code, cur_status, proc >>
  /\ KeepBundle
  /\ KeepMrc
  /\ UNCHANGED num_ready_accs

\* cb_token_renewed(): a new token is stored, the state file rewritten and
\* the next renewal job left for the loop to schedule; a failure is only
\* printed.  Either way the client is disconnected.
cb_token_renewed(a, res, new_token) ==
  /\ proc # "crashed"
  /\ a \in DOMAIN accounts
  /\ accounts[a].pc = "renew"
  /\ (res.ok /\ new_token)
       => MtxFree /\ accounts[a].renewals < MaxRenewals
  /\ IF res.ok /\ new_token
       THEN \E rs \in RenewRace(accounts[a]) :
            LET accs2 == [ accounts EXCEPT
                            ![a] = Disconnecting(Renewed(@, rs)) ]
            IN /\ accounts' = accs2
               /\ PutBundle(update_manifest(
                    [ CurBundle EXCEPT !.state_dirty = TRUE ], accs2, now))
               /\ wake' = TRUE
       ELSE /\ accounts' = [ accounts EXCEPT ![a] = Disconnecting(@) ]
            /\ KeepBundle
            /\ UNCHANGED wake
  /\ KeepMrc
  /\ UNCHANGED << cur_status, num_ready_accs, exit_code, num_cm_connections,
                  proc >>

\* A disconnect callback that reconnects also while the server stops.
cb_disconnected_reconnecting(a) ==
  /\ proc # "crashed"
  /\ a \in DOMAIN accounts
  /\ accounts[a].pc \in Connected
  /\ num_cm_connections' = num_cm_connections - 1
  /\ LET acc == [ accounts[a] EXCEPT !.dk_sent = {}, !.dk_nokey = {},
                                     !.pics_apps = {} ]
     IN accounts' =
          [ accounts EXCEPT ![a] =
              IF acc.rem_status = "pending_remove"
                THEN [ acc EXCEPT !.rem_status = "remove", !.pc = "idle" ]
                ELSE IF acc.rem_status = "none"
                  THEN [ acc EXCEPT !.pc = "connecting" ]
                  ELSE [ acc EXCEPT !.pc = "idle" ] ]
  /\ KeepBundle
  /\ KeepMrc
  /\ UNCHANGED << cur_status, num_ready_accs, exit_code, wake, proc >>

\* cb_disconnected(): an account pending removal becomes removable; an
\* account not marked for removal reconnects unless the server is stopping.
cb_disconnected(a) ==
  /\ proc # "crashed"
  /\ a \in DOMAIN accounts
  /\ accounts[a].pc \in Connected
  /\ num_cm_connections' = num_cm_connections - 1
  /\ LET acc == [ accounts[a] EXCEPT !.dk_sent = {}, !.dk_nokey = {},
                                     !.pics_apps = {} ]
     IN accounts' =
          [ accounts EXCEPT ![a] =
              IF acc.rem_status = "pending_remove"
                THEN [ acc EXCEPT !.rem_status = "remove", !.pc = "idle" ]
                ELSE IF acc.rem_status = "none" /\ cur_status # "stopping"
                  THEN [ acc EXCEPT !.pc = "connecting" ]
                  ELSE [ acc EXCEPT !.pc = "idle" ] ]
  /\ KeepBundle
  /\ KeepMrc
  /\ UNCHANGED << cur_status, num_ready_accs, exit_code, wake, proc >>

\* std::erase(depot.accs, &acc) over the whole catalog; a depot that lost
\* the account gets next_acc = accs.cbegin().
EraseAccount(ap, a) ==
  [ x \in DOMAIN ap |->
      [ ap[x] EXCEPT !.depots =
          [ d \in DOMAIN ap[x].depots |->
              IF a \in Range(ap[x].depots[d].accs)
                THEN Depot(SeqErase(ap[x].depots[d].accs, a), 1)
                ELSE ap[x].depots[d] ] ] ]

\* The token-invalidated branch of cb_signed_in() under manifest_mtx: mark
\* the account, then either finish setup when every other account is ready,
\* or (when not in setup) drop the account from the catalog.
Invalidate(B, accs, a, status, ready_accs, t) ==
  LET accs1 == [ accs EXCEPT ![a].rem_status = "pending_remove" ]
      B1 == [ B EXCEPT !.state_dirty = TRUE ]
  IN IF status = "setup"
       THEN IF ready_accs = Cardinality(DOMAIN accs) - 1
              THEN [ B |-> sync_manifest(B1, accs1, t), accs |-> accs1,
                     status |-> "running" ]
              ELSE [ B |-> B1, accs |-> accs1, status |-> status ]
       ELSE LET e == EraseEmpty(EraseAccount(B1.apps, a))
                B2 == [ B1 EXCEPT !.apps = e.apps,
                          !.manifest_dirty = B1.manifest_dirty \/ e.erased ]
            IN [ B |-> update_manifest(B2, accs1, t), accs |-> accs1,
                 status |-> status ]

IsInvalidated(res) ==
  /\ ~res.ok
  /\ res.type = "steam_cm"
  /\ res.aux \in { "access_denied", "invalid_signature" }

\* cb_signed_in(): success fetches the licenses; an invalidated token marks
\* the account for removal; service_unavailable only disconnects; any
\* other failure is fatal.
cb_signed_in(a, res) ==
  /\ proc # "crashed"
  /\ a \in DOMAIN accounts
  /\ accounts[a].pc = "sign_in"
  /\ (~res.ok /\ IsInvalidated(res)) => MtxFree
  /\ IF res.ok
       THEN /\ accounts' = [ accounts EXCEPT ![a].pc = "lics" ]
            /\ KeepBundle
            /\ UNCHANGED << cur_status, exit_code, wake, proc >>
       ELSE IF IsInvalidated(res)
         THEN LET r == Invalidate(CurBundle, accounts, a, cur_status,
                                  num_ready_accs, now)
              IN /\ PutBundle(r.B)
                 /\ cur_status' = r.status
                 /\ accounts' = [ r.accs EXCEPT ![a] = Disconnecting(r.accs[a]) ]
                 /\ wake' = TRUE
                 /\ UNCHANGED << exit_code, proc >>
         ELSE /\ accounts' = [ accounts EXCEPT ![a] = Disconnecting(accounts[a]) ]
              /\ KeepBundle
              /\ IF res.type # "steam_cm" \/ res.aux # "service_unavailable"
                   THEN /\ exit_code' = 1
                        /\ cur_status' = "stopping"
                        /\ proc' = "exited"
                   ELSE UNCHANGED << exit_code, cur_status, proc >>
              /\ UNCHANGED wake
  /\ KeepMrc
  /\ UNCHANGED << num_ready_accs, num_cm_connections >>

\* ------------------------------------------------------- PICS callbacks

\* cb_lics(): a failure disconnects; an empty license list ends the
\* pipeline; otherwise package info is requested.
cb_lics(a, res, num_entries) ==
  /\ proc # "crashed"
  /\ a \in DOMAIN accounts
  /\ accounts[a].pc = "lics"
  /\ accounts' =
       [ accounts EXCEPT ![a] =
           IF ~res.ok THEN Disconnecting(@)
           ELSE IF num_entries = 0 THEN [ @ EXCEPT !.pc = "online" ]
           ELSE [ @ EXCEPT !.pc = "pkg" ] ]
  /\ KeepBundle
  /\ KeepMrc
  /\ UNCHANGED << cur_status, num_ready_accs, exit_code, num_cm_connections,
                  wake, proc >>

\* cb_package_info(): collect the candidate depot ids (depotids and appids)
\* and the owned apps, then request the apps' access tokens.
cb_package_info(a, resp) ==
  /\ proc # "crashed"
  /\ a \in DOMAIN accounts
  /\ accounts[a].pc = "pkg"
  /\ accounts' =
       [ accounts EXCEPT ![a] =
           IF ~resp.result.ok \/ resp.entry_err THEN Disconnecting(@)
           ELSE [ @ EXCEPT !.pc = "tokens",
                    !.depot_ids = @ \cup resp.depotids \cup resp.appids,
                    !.pics_apps = resp.appids ] ]
  /\ KeepBundle
  /\ KeepMrc
  /\ UNCHANGED << cur_status, num_ready_accs, exit_code, num_cm_connections,
                  wake, proc >>

\* cb_access_tokens(): a denied token is kept as 0; any other failure
\* disconnects; otherwise app info is requested.
cb_access_tokens(a, resp) ==
  /\ proc # "crashed"
  /\ a \in DOMAIN accounts
  /\ accounts[a].pc = "tokens"
  /\ accounts' =
       [ accounts EXCEPT ![a] =
           IF ~resp.result.ok \/ resp.entry_err THEN Disconnecting(@)
           ELSE [ @ EXCEPT !.pc = "app_info" ] ]
  /\ KeepBundle
  /\ KeepMrc
  /\ UNCHANGED << cur_status, num_ready_accs, exit_code, num_cm_connections,
                  wake, proc >>

\* ------------------------------------------------------------ cb_app_info

\* Lexicographic order on <<app, depot>> pairs (std::pair's operator<).
PairLess(p, q) == p[1] < q[1] \/ (p[1] = q[1] /\ p[2] < q[2])

RECURSIVE InsertSorted(_, _)
InsertSorted(s, p) ==
  IF s = << >> THEN << p >>
  ELSE IF PairLess(p, Head(s)) THEN << p >> \o s
  ELSE << Head(s) >> \o InsertSorted(Tail(s), p)

RECURSIVE SortPairs(_)
\* std::ranges::sort(missing_keys): equal pairs are all kept.
SortPairs(s) ==
  IF s = << >> THEN << >> ELSE InsertSorted(SortPairs(Tail(s)), Head(s))

\* The loop body over depot_ids (cm_callbacks.cpp:309-322) for one depot:
\* emplace the depot, add the account unless it is listed, reset the
\* cursor, note a missing key.
AdmitDepot(st, a, app_id, d, keys) ==
  LET deps == st.apps[app_id].depots
      emplaced == d \notin DOMAIN deps
      dep0 == IF emplaced THEN NewDepot ELSE deps[d]
      dep1 == IF emplaced \/ a \notin Range(dep0.accs)
                THEN Depot(Append(dep0.accs, a), 1)
                ELSE dep0
  IN [ st EXCEPT !.apps[app_id].depots = MapPut(deps, d, dep1),
                 !.dirty = st.dirty \/ emplaced,
                 !.missing = IF d \notin keys
                               THEN Append(st.missing, << app_id, d >>)
                               ELSE st.missing ]

RECURSIVE AdmitDepots(_, _, _, _, _)
AdmitDepots(st, a, app_id, ds, keys) ==
  IF ds = << >> THEN st
  ELSE AdmitDepots(AdmitDepot(st, a, app_id, Head(ds), keys), a, app_id,
                   Tail(ds), keys)

\* One successful app entry (cm_callbacks.cpp:255-325): a VDF that does not
\* parse ends the processing with an error; otherwise workshopdepot and the
\* numbered depots that the account owns are admitted.
ProcessEntry(st, a, e, keys) ==
  IF ~e.vdf.parse_ok THEN [ st EXCEPT !.err = TRUE ]
  ELSE
    LET owned == e.vdf.depots \cap st.depot_ids
        ds == (IF e.vdf.workshopdepot # 0
                 THEN << e.vdf.workshopdepot >> ELSE << >>)
              \o SortedSeq(owned)
        st1 == [ st EXCEPT !.depot_ids = st.depot_ids \ owned ]
    IN IF ds = << >> THEN st1
       ELSE
         LET emplaced == e.id \notin DOMAIN st1.apps
             app0 == IF emplaced THEN [ name |-> "", depots |-> EmptyMap ]
                     ELSE st1.apps[e.id]
             app1 == IF e.vdf.name # "" THEN [ app0 EXCEPT !.name = e.vdf.name ]
                     ELSE app0
             st2 == [ st1 EXCEPT !.apps = MapPut(st1.apps, e.id, app1),
                                 !.dirty = st1.dirty \/ emplaced ]
         IN AdmitDepots(st2, a, e.id, ds, keys)

RECURSIVE ProcessEntries(_, _, _, _)
\* The extraction loop: failed entries (missing token) are skipped, the
\* loop stops at the first VDF that does not parse.
ProcessEntries(st, a, es, keys) ==
  IF es = << >> \/ st.err THEN st
  ELSE ProcessEntries(
         IF Head(es).result.ok THEN ProcessEntry(st, a, Head(es), keys) ELSE st,
         a, Tail(es), keys)

\* An app entry whose failure aborts the whole response.
EntryFatal(e) ==
  ~e.result.ok /\ ~(e.result.type = "sub" /\ e.result.aux = "cm_missing_token")

Min2(x, y) == IF x < y THEN x ELSE y

\* A burst of every queued request at once.
SendAll(acc) ==
  [ acc EXCEPT !.rem_dk_burst = acc.rem_dk_total,
               !.dk_sent = @ \cup (1..acc.rem_dk_total),
               !.rem_dk_total = 0 ]

\* Send the next burst: the last min(5, rem_dk_total) queued requests.
SendBurst(acc) ==
  LET burst_size == Min2(DkBurst, acc.rem_dk_total)
  IN [ acc EXCEPT !.rem_dk_burst = burst_size,
         !.dk_sent = @ \cup ((acc.rem_dk_total - burst_size + 1)..acc.rem_dk_total),
         !.rem_dk_total = acc.rem_dk_total - burst_size ]

\* Schedule the depot-key requests for the sorted missing keys.
StartHarvest(acc, missing) ==
  IF missing = << >> THEN acc
  ELSE SendBurst([ acc EXCEPT !.rem_dk_total = Len(missing),
                     !.depot_key_requests = SortPairs(missing),
                     !.dk_sent = {}, !.dk_nokey = {} ])

\* The readiness accounting of cb_app_info (cm_callbacks.cpp:329-339).
AfterAppInfo(B, accs, a, status, ready_accs, t) ==
  LET accs1 == [ accs EXCEPT ![a].depot_ids = {} ]
  IN IF status = "running"
       THEN [ B |-> sync_manifest(B, accs1, t), accs |-> accs1,
              status |-> status, ready_accs |-> ready_accs ]
       ELSE IF ~accs1[a].ready
         THEN LET accs2 == [ accs1 EXCEPT ![a].ready = TRUE ]
              IN IF ready_accs + 1 = Cardinality(DOMAIN accs2)
                   THEN [ B |-> sync_manifest(B, accs2, t), accs |-> accs2,
                          status |-> "running", ready_accs |-> ready_accs + 1 ]
                   ELSE [ B |-> B, accs |-> accs2, status |-> status,
                          ready_accs |-> ready_accs + 1 ]
         ELSE [ B |-> B, accs |-> accs1, status |-> status,
                ready_accs |-> ready_accs ]

\* cb_app_info(): a failed response or a failed app entry disconnects;
\* otherwise the catalog takes the account's depots, the account is counted
\* ready (which may end setup), and the missing keys are requested.
cb_app_info(a, resp) ==
  /\ proc # "crashed"
  /\ a \in DOMAIN accounts
  /\ accounts[a].pc = "app_info"
  /\ resp.result.ok => MtxFree
  /\ [ i \in 1..Len(resp.entries) |-> resp.entries[i].id ]
       = SortedSeq(accounts[a].pics_apps)
  /\ IF ~resp.result.ok
          \/ \E i \in 1..Len(resp.entries) : EntryFatal(resp.entries[i])
       THEN /\ accounts' = [ accounts EXCEPT ![a] = Disconnecting(@) ]
            /\ KeepBundle
            /\ UNCHANGED << cur_status, num_ready_accs >>
       ELSE
         LET st == ProcessEntries(
                     [ apps |-> apps, dirty |-> manifest_dirty,
                       depot_ids |-> accounts[a].depot_ids,
                       missing |-> << >>, err |-> FALSE ],
                     a, resp.entries, depot_keys)
             B1 == [ CurBundle EXCEPT !.apps = st.apps,
                                      !.manifest_dirty = st.dirty ]
             accs1 == [ accounts EXCEPT ![a].depot_ids = st.depot_ids ]
         IN IF st.err
              THEN /\ PutBundle(B1)
                   /\ accounts' = [ accs1 EXCEPT ![a] = Disconnecting(@) ]
                   /\ UNCHANGED << cur_status, num_ready_accs >>
              ELSE
                LET r == AfterAppInfo(B1, accs1, a, cur_status,
                                      num_ready_accs, now)
                IN /\ PutBundle(r.B)
                   /\ cur_status' = r.status
                   /\ num_ready_accs' = r.ready_accs
                   /\ accounts' =
                        [ r.accs EXCEPT ![a] =
                            StartHarvest([ @ EXCEPT !.pc = "online",
                                                    !.pics_apps = {} ],
                                         st.missing) ]
  /\ KeepMrc
  /\ UNCHANGED << exit_code, num_cm_connections, wake, proc >>

\* ----------------------------------------------------------- cb_depot_key

\* The error filter of cb_depot_key (cm_callbacks.cpp:168-170): failures
\* that are neither of type steam_cm nor carry the auxiliary code blocked.
KeyFailure(res) ==
  ~res.ok /\ res.type # "steam_cm" /\ res.aux # "blocked"

\* A success branch that marks the manifest dirty but stores nothing.
StoreKeyDropped(B, d) == [ B EXCEPT !.manifest_dirty = TRUE ]

\* The success branch: store the key and mark the manifest dirty.
StoreKey(B, d) ==
  [ B EXCEPT !.manifest_dirty = TRUE, !.depot_keys = B.depot_keys \cup {d} ]

\* cb_depot_key(): the response to request i of the account's array.
cb_depot_key(a, i, res) ==
  /\ proc # "crashed"
  /\ a \in DOMAIN accounts
  /\ accounts[a].pc = "online"
  /\ i \in accounts[a].dk_sent
  /\ ( /\ cur_status # "stopping"
       /\ ~KeyFailure(res)
       /\ \/ res.ok
          \/ /\ accounts[a].rem_dk_burst = 1
             /\ accounts[a].rem_dk_total = 0
             /\ cur_status = "running" ) => MtxFree
  /\ LET acc == accounts[a]
         d == acc.depot_key_requests[i][2]
     IN IF cur_status = "stopping"
          THEN /\ accounts' = [ accounts EXCEPT ![a].dk_sent = @ \ {i},
                                  ![a].dk_nokey = @ \cup {d} ]
               /\ KeepBundle
          ELSE IF KeyFailure(res)
            THEN IF res.type = "sub" /\ res.aux = "cm_timeout"
                   THEN /\ UNCHANGED accounts
                        /\ KeepBundle
                   ELSE /\ accounts' = [ accounts EXCEPT ![a] = Disconnecting(@) ]
                        /\ KeepBundle
            ELSE
              LET B1 == IF res.ok THEN StoreKey(CurBundle, d) ELSE CurBundle
                  acc1 == [ acc EXCEPT !.dk_sent = @ \ {i},
                              !.dk_nokey = IF res.ok THEN @ ELSE @ \cup {d},
                              !.rem_dk_burst = @ - 1 ]
              IN IF acc1.rem_dk_burst # 0
                   THEN /\ accounts' = [ accounts EXCEPT ![a] = acc1 ]
                        /\ PutBundle(B1)
                   ELSE IF acc1.rem_dk_total # 0
                     THEN /\ accounts' = [ accounts EXCEPT ![a] = SendBurst(acc1) ]
                          /\ PutBundle(B1)
                     ELSE
                       LET accs2 == [ accounts EXCEPT ![a] =
                                        [ acc1 EXCEPT !.depot_key_requests = << >> ] ]
                       IN /\ accounts' = accs2
                          /\ PutBundle(IF cur_status = "running"
                                         THEN sync_manifest(B1, accs2, now)
                                         ELSE B1)
  /\ KeepMrc
  /\ UNCHANGED << cur_status, num_ready_accs, exit_code, num_cm_connections,
                  wake, proc >>

\* ----------------------------------------------------------------- sign-in

\* What the sign-in handlers leave alone.
KeepServer ==
  UNCHANGED << cur_status, num_ready_accs, exit_code, mrcs, suls, mrc_order,
               mrc_evicted, last_http, now, usec, http_bufs,
               download_lock, sessions, entry >>

\* A client message as rapidjson parses it: whether it is a JSON object,
\* its "type" string ("" when missing or not a string) and the members
\* among account_name, password, code that are strings.
Msg(type, members) == [ object |-> TRUE, type |-> type, members |-> members ]

NotJson == [ object |-> FALSE, type |-> "", members |-> {} ]

\* signin_process_msg(): the context after the message and the value
\* returned (1 closes the connection).  created: tek_sc_cm_client_create
\* succeeded.
signin_process_msg(ctx, m, created) ==
  LET close == [ ctx |-> ctx, ret |-> 1 ]
      start(t) ==
        IF created
          THEN [ ctx |-> [ ctx EXCEPT !.type = t, !.cm = "connecting",
                                      !.listed = TRUE,
                                      !.state = "awaiting_cm_response" ],
                 ret |-> 0 ]
          ELSE [ ctx |-> [ ctx EXCEPT !.type = t ], ret |-> 1 ]
  IN IF ctx.state = "awaiting_cm_response" THEN close
     ELSE IF ~m.object THEN close
     ELSE IF ctx.state = "awaiting_init"
       THEN IF m.type = "credentials"
              THEN IF { "account_name", "password" } \subseteq m.members
                     THEN start("credentials")
                     ELSE [ ctx |-> [ ctx EXCEPT !.type = "credentials" ],
                            ret |-> 1 ]
              ELSE IF m.type = "qr" THEN start("qr") ELSE close
     ELSE IF ctx.state = "awaiting_confirmation"
       THEN IF m.type \in { "guard_code", "email" } /\ "code" \in m.members
              THEN [ ctx |-> [ ctx EXCEPT !.codes = @ + 1 ], ret |-> 0 ]
              ELSE close
     ELSE close

\* LWS_CALLBACK_ESTABLISHED on /signin: a fresh context awaiting the
\* initial message.
ws_established ==
  /\ proc = "run"
  /\ s_ctx.conn = "none"
  /\ s_ctx.serial < MaxSessions
  /\ s_ctx' = [ NoCtx EXCEPT !.conn = "open", !.state = "awaiting_init",
                             !.serial = s_ctx.serial + 1 ]
  /\ KeepBundle
  /\ KeepServer
  /\ UNCHANGED << accounts, num_cm_connections, wake, proc >>

\* The context after a callback returned ret for the connection.
Returned(ctx, ret, by) ==
  IF ret = 0 THEN ctx ELSE [ ctx EXCEPT !.conn = "closing", !.closed_by = by ]

\* LWS_CALLBACK_RECEIVE: a binary frame falls through to
\* lws_callback_http_dummy; a frame that is not whole (more payload
\* remains or it is not the final fragment) returns 1; otherwise the
\* message is processed.
ws_receive(f, created) ==
  /\ proc = "run"
  /\ s_ctx.conn = "open"
  /\ s_ctx.cm # "merging"
  /\ s_ctx.codes < MaxCodes
  /\ s_ctx' =
       IF f.binary
         THEN [ s_ctx EXCEPT !.rx = "binary" ]
         ELSE IF ~f.whole
           THEN Returned([ s_ctx EXCEPT !.rx = "partial" ], 1, "receive")
           ELSE LET r == signin_process_msg(s_ctx, f.msg, created)
                IN Returned([ r.ctx EXCEPT !.rx = "text" ], r.ret, "receive")
  /\ KeepBundle
  /\ KeepServer
  /\ UNCHANGED << accounts, num_cm_connections, wake, proc >>

\* state >= signin_state::done.
AtLeastDone(st) == st \in { "done", "disonnected" }

\* LWS_CALLBACK_SERVER_WRITEABLE: nothing when msg_size <= 0; otherwise
\* the buffer is written (wrote: lws_write took all of it) and the
\* connection is closed once the state is at least done.  msg_size is left
\* as it is.  The callback runs under ctx.mtx: it proceeds, at once or after
\* having waited for it, when the CM thread does not hold the mutex.
ws_writeable(wrote) ==
  /\ proc \in { "run", "blocked" }
  /\ proc = "blocked" => s_ctx.conn = "open"
  /\ s_ctx.conn = "open"
  /\ s_ctx.cm # "merging"
  /\ proc' = "run"
  /\ s_ctx.writable
  /\ Len(s_ctx.sent) < MaxSent
  /\ LET c == [ s_ctx EXCEPT !.writable = FALSE ]
     IN s_ctx' =
          IF c.msg \in { "none", "close" } THEN c
          ELSE IF ~wrote THEN Returned(c, 1, "write_error")
          ELSE Returned([ c EXCEPT !.sent = Append(@, c.msg),
                                   !.unsent = FALSE ],
                        IF AtLeastDone(c.state) THEN 1 ELSE 0, "writeable")
  /\ KeepBundle
  /\ KeepServer
  /\ UNCHANGED << accounts, num_cm_connections, wake >>

\* LWS_CALLBACK_SERVER_WRITEABLE while cb_auth_disconnected holds ctx.mtx:
\* the event loop blocks in the scoped_lock.
ws_writeable_wait ==
  /\ proc = "run"
  /\ s_ctx.conn = "open"
  /\ s_ctx.writable
  /\ s_ctx.cm = "merging"
  /\ proc' = "blocked"
  /\ KeepBundle
  /\ KeepServer
  /\ UNCHANGED << accounts, num_cm_connections, wake, s_ctx >>

\* LWS_CALLBACK_CLOSED up to the wait: the context leaves
\* state.signin_ctxs; a CM client is told to disconnect, without one the
\* state becomes disonnected; the event loop then blocks on ctx.state.
ws_closed ==
  /\ proc = "run"
  /\ s_ctx.conn \in { "open", "closing" }
  /\ s_ctx' = [ s_ctx EXCEPT
                  !.conn = "closed_wait", !.listed = FALSE, !.writable = FALSE,
                  !.cm = IF @ \in { "connecting", "auth" }
                           THEN "disconnecting" ELSE @,
                  !.state = IF s_ctx.cm = "none" THEN "disonnected" ELSE @ ]
  /\ proc' = "blocked"
  /\ KeepBundle
  /\ KeepServer
  /\ UNCHANGED << accounts, num_cm_connections, wake >>

\* LWS_CALLBACK_CLOSED after the wait: the state is disonnected, the
\* context is destroyed and the event loop goes on.
ws_closed_end ==
  /\ proc = "blocked"
  /\ s_ctx.conn = "closed_wait"
  /\ s_ctx.state = "disonnected"
  /\ s_ctx' = [ NoCtx EXCEPT !.serial = s_ctx.serial ]
  /\ proc' = "run"
  /\ KeepBundle
  /\ KeepServer
  /\ UNCHANGED << accounts, num_cm_connections, wake >>

\* cb_auth_connected(): a failed connection ends the sign-in with an error
\* message unless it is done; a successful one begins the authentication
\* session.
cb_auth_connected(res) ==
  /\ proc # "crashed"
  /\ s_ctx.cm = "connecting"
  /\ IF ~res.ok
       THEN IF s_ctx.state # "done"
              THEN /\ s_ctx' = [ s_ctx EXCEPT !.cm = "gone",
                                   !.state = "disonnected", !.msg = "error",
                                   !.unsent = TRUE ]
                   /\ wake' = TRUE
              ELSE /\ s_ctx' = [ s_ctx EXCEPT !.cm = "gone" ]
                   /\ UNCHANGED wake
       ELSE /\ s_ctx' = [ s_ctx EXCEPT !.cm = "auth" ]
            /\ UNCHANGED wake
  /\ KeepBundle
  /\ KeepServer
  /\ UNCHANGED << accounts, num_cm_connections, proc >>

\* cb_auth(): completion stores the final message, success also the token
\* and the state done, then asks for the disconnect; a new URL and a
\* confirmation request store their message, the latter with the state
\* awaiting_confirmation.  Every case wakes the event loop.
cb_auth(ev) ==
  /\ proc # "crashed"
  /\ s_ctx.cm = "auth"
  /\ ev.status = "new_url" => s_ctx.type = "qr"
  /\ ev.status = "awaiting_confirmation" => s_ctx.type = "credentials"
  /\ s_ctx' =
       IF ev.status = "completed"
         THEN IF ev.res.ok
                THEN [ s_ctx EXCEPT !.token = ev.token, !.state = "done",
                                    !.msg = "renewable", !.final = "renewable",
                                    !.cm = "disconnecting", !.unsent = TRUE ]
                ELSE [ s_ctx EXCEPT !.msg = "error", !.final = "error",
                                    !.cm = "disconnecting", !.unsent = TRUE ]
         ELSE IF ev.status = "new_url"
           THEN [ s_ctx EXCEPT !.msg = "url", !.unsent = TRUE ]
           ELSE [ s_ctx EXCEPT !.state = "awaiting_confirmation",
                               !.msg = "confirmations", !.codes = 0,
                               !.unsent = TRUE ]
  /\ wake' = TRUE
  /\ KeepBundle
  /\ KeepServer
  /\ UNCHANGED << accounts, num_cm_connections, proc >>

\* token_info.renewable && !acc.token_info.renewable.
ReplacesTokenAlways(new, acc) == new.renewable

ReplacesToken(new, acc) == new.renewable /\ ~acc.renewable

\* cb_auth_disconnected(): a finished sign-in hands its token over: a new
\* Steam ID is emplaced with the sign-in's CM client, which connects; an
\* account whose token is replaced gets that client and the old one is
\* destroyed (dropped: whether the destroyed client's connection is still
\* counted); otherwise the new client is destroyed.  An unfinished sign-in
\* asks for the connection to be closed unless the server is stopping.
cb_auth_disconnected(dropped) ==
  /\ proc # "crashed"
  /\ s_ctx.cm \in { "auth", "disconnecting", "merging" }
  /\ (s_ctx.state = "done" /\ s_ctx.token # NoToken) => MtxFree
  /\ LET tok == s_ctx.token
         s == tok.steam_id
         gone == [ s_ctx EXCEPT !.cm = "gone", !.state = "disonnected" ]
     IN IF s_ctx.state = "done"
          THEN /\ UNCHANGED wake
               /\ IF tok = NoToken
                    THEN /\ s_ctx' = gone
                         /\ KeepBundle
                         /\ UNCHANGED << accounts, num_cm_connections >>
                  ELSE IF s \notin DOMAIN accounts
                    THEN LET accs2 ==
                               MapPut(accounts, s,
                                      [ NewAccount(tok.renewable) EXCEPT
                                          !.token = tok.serial,
                                          !.pc = "connecting" ])
                         IN /\ s_ctx' = [ gone EXCEPT !.token = NoToken ]
                            /\ accounts' = accs2
                            /\ PutBundle(update_manifest(
                                 [ CurBundle EXCEPT !.state_dirty = TRUE ],
                                 accs2, now))
                            /\ UNCHANGED num_cm_connections
                  ELSE IF ReplacesToken(tok, accounts[s])
                    THEN LET accs2 ==
                               [ accounts EXCEPT
                                   ![s].token = tok.serial,
                                   ![s].renewable = tok.renewable,
                                   ![s].pc = "connecting", ![s].dk_sent = {},
                                   ![s].dk_nokey = {}, ![s].pics_apps = {} ]
                         IN /\ s_ctx' = [ gone EXCEPT !.token = NoToken ]
                            /\ accounts' = accs2
                            /\ PutBundle(update_manifest(
                                 [ CurBundle EXCEPT !.state_dirty = TRUE ],
                                 accs2, now))
                            /\ num_cm_connections' =
                                 IF accounts[s].pc \in Connected /\ dropped
                                   THEN num_cm_connections - 1
                                   ELSE num_cm_connections
                  ELSE /\ s_ctx' = gone
                       /\ KeepBundle
                       /\ UNCHANGED << accounts, num_cm_connections >>
          ELSE /\ IF cur_status # "stopping"
                    THEN /\ s_ctx' = [ gone EXCEPT !.msg = "close" ]
                         /\ wake' = TRUE
                    ELSE /\ s_ctx' = gone
                         /\ UNCHANGED wake
               /\ KeepBundle
               /\ UNCHANGED << accounts, num_cm_connections >>
  /\ KeepServer
  /\ UNCHANGED proc

\* cb_auth_disconnected() up to state.manifest_mtx.lock(): with a token to
\* merge and the mutex held through the download lock, the CM thread waits
\* for it while it holds ctx.mtx.
cb_auth_disconnected_wait ==
  /\ proc # "crashed"
  /\ s_ctx.cm \in { "auth", "disconnecting" }
  /\ s_ctx.state = "done"
  /\ s_ctx.token # NoToken
  /\ ~MtxFree
  /\ s_ctx' = [ s_ctx EXCEPT !.cm = "merging" ]
  /\ KeepBundle
  /\ UNCHANGED << cur_status, accounts, num_ready_accs, exit_code,
                  num_cm_connections, mrcs, suls, mrc_order, mrc_evicted,
                  wake, proc, now, usec, http_bufs, entry, download_lock,
                  sessions, last_http >>

\* The pass of the wake-up handler over state.signin_ctxs: a pending
\* message asks for the writeable callback, msg_size < 0 sets the kill
\* timeout.
SigninPass(ctx) ==
  IF ~ctx.listed THEN ctx
  ELSE IF ctx.msg = "close"
    THEN [ ctx EXCEPT !.conn = "closing",
             !.closed_by = IF ctx.conn = "closing" THEN @ ELSE "timeout" ]
  ELSE IF ctx.msg # "none" THEN [ ctx EXCEPT !.writable = TRUE ]
  ELSE ctx

\* -------------------------------------------------------------- event loop

\* ts3_stop(): request the stop and wake the event loop.
ts3_stop ==
  /\ proc = "run"
  /\ cur_status' = "stopping"
  /\ wake' = TRUE
  /\ KeepBundle
  /\ KeepMrc
  /\ UNCHANGED << accounts, num_ready_accs, exit_code, num_cm_connections, proc >>

\* The renewal-job pass of the wake-up handler: a job pending schedule is
\* scheduled (the job of a removable account is only cancelled).
ScheduleJobs(accs) ==
  [ s \in DOMAIN accs |->
      IF accs[s].rem_status = "remove" /\ accs[s].ren_status = "scheduled"
        THEN accs[s]
        ELSE IF accs[s].ren_status = "pending_schedule"
          THEN [ accs[s] EXCEPT !.ren_status = "scheduled" ]
          ELSE accs[s] ]

\* std::erase_if(state.accounts, rem_status == remove).
ReapAccounts(accs) ==
  Restrict(accs, { s \in DOMAIN accs : accs[s].rem_status # "remove" })

\* LWS_CALLBACK_EVENT_WAIT_CANCELLED: when stopping destroy the context;
\* otherwise schedule renewal jobs, erase the removable accounts and, if
\* that erased something during setup and every remaining account is
\* counted ready, update_manifest() and run; then the pass over the
\* sign-in contexts.
EventWaitCancelled ==
  /\ proc = "run"
  /\ wake
  /\ wake' = FALSE
  /\ IF cur_status = "stopping"
       THEN /\ proc' = "exited"
            /\ download_lock' = force_unlock(download_lock)
            /\ sessions' = [ c \in Connections |-> NoSession ]
            /\ KeepBundle
            /\ UNCHANGED << accounts, cur_status, s_ctx >>
       ELSE
         LET accs1 == ReapAccounts(ScheduleJobs(accounts))
             finish == /\ DOMAIN accs1 # DOMAIN accounts
                       /\ cur_status = "setup"
                       /\ num_ready_accs = Cardinality(DOMAIN accs1)
         IN /\ accounts' = accs1
            /\ IF finish
                 THEN /\ PutBundle(update_manifest(CurBundle, accs1, now))
                      /\ cur_status' = "running"
                 ELSE /\ KeepBundle
                      /\ UNCHANGED cur_status
            /\ s_ctx' = SigninPass(s_ctx)
            /\ UNCHANGED << proc, download_lock, sessions >>
  /\ UNCHANGED << mrcs, suls, mrc_order, mrc_evicted, last_http, now, usec,
                  http_bufs, entry >>
  /\ UNCHANGED << num_ready_accs, exit_code, num_cm_connections >>

\* ------------------------------------------------------------------- HTTP

\* A date header as text: whether it has the shape
\* "%a, %d %b %Y %X GMT", and the day (counted from the epoch), hour,
\* minute and second it names.
Garbage == [ ok |-> FALSE, day |-> 0, hh |-> 0, mm |-> 0, ss |-> 0 ]

\* "{:%a, %d %b %Y %X} GMT" of a time_t: the Last-Modified text.
FormatDate(t) ==
  [ ok |-> TRUE, day |-> t \div 86400, hh |-> (t % 86400) \div 3600,
    mm |-> (t % 3600) \div 60, ss |-> t % 60 ]

\* std::get_time succeeds on text of the right shape whose fields are in
\* range (a second may be 60).
GetTimeOk(tm) ==
  tm.ok /\ tm.hh \in 0..23 /\ tm.mm \in 0..59 /\ tm.ss \in 0..60

\* timegm(&tm): seconds since the epoch, fields normalised.
Timegm(tm) == tm.day * 86400 + tm.hh * 3600 + tm.mm * 60 + tm.ss

\* An HTTP request: the URI, the method, the If-Modified-Since header
\* (present? does lws_hdr_copy fit it into the 256-byte buffer? its text),
\* whether the Accept-Encoding header fits the buffer, and the three /mrc
\* URL arguments (args_ok: all present and numeric).
NoIms == [ present |-> FALSE, fits |-> TRUE, tm |-> Garbage ]
ImsAt(t) == [ present |-> TRUE, fits |-> TRUE, tm |-> FormatDate(t) ]
BadIms == [ present |-> TRUE, fits |-> TRUE, tm |-> Garbage ]
ImsText(fits, tm) == [ present |-> TRUE, fits |-> fits, tm |-> tm ]

Req(uri, method, ims, args_ok, app_id, depot_id, manifest_id) ==
  [ uri |-> uri, method |-> method, ims |-> ims, ae_fits |-> TRUE,
    accept |-> {}, args_ok |-> args_ok,
    app_id |-> app_id, depot_id |-> depot_id, manifest_id |-> manifest_id ]

\* The request with the Accept-Encoding header made of the tokens h.
WithAccept(req, h) == [ req EXCEPT !.accept = h ]

\* The request with an Accept-Encoding header of 256 bytes or more.
LongAccept(req) == [ req EXCEPT !.ae_fits = FALSE ]

MrcReq(method, args_ok, app_id, depot_id, manifest_id) ==
  Req("/mrc", method, NoIms, args_ok, app_id, depot_id, manifest_id)

\* What the CM fetch of a miss yields within the handler's wait: a code, a
\* reported timeout, another failure, or no completion at all (the result
\* keeps its initial value: type basic, primary cm_timeout).
FetchOk(code) == [ res |-> Ok, code |-> code ]
FetchErr(res) == [ res |-> res, code |-> 0 ]

Response(uri, code, body, acc, max_age) ==
  [ uri |-> uri, code |-> code, body |-> body, acc |-> acc, max_age |-> max_age ]

\* A handler that refuses only a stopping server.
UnavailableOnlyStopping(status) == status = "stopping"

\* The first check of the HTTP handler: anything but running is refused.
Unavailable(status) == status # "running"

\* A capacity test that lets the cache grow one entry too far.
CacheOverfull(m) == Cardinality(DOMAIN m) > MrcCacheCap

\* A TTL computed without the look-ahead.
MrcRemTimeNoLookahead(t) == (t \div MrcPeriod) * MrcPeriod + MrcPhase - t

\* rem_time of a miss at wall-clock second t.
MrcRemTime(t) ==
  ((t + MrcLookahead) \div MrcPeriod) * MrcPeriod + MrcPhase - t

\* The cache is at its capacity.
CacheFull(m) == Cardinality(DOMAIN m) >= MrcCacheCap

\* An eviction policy that drops the entry inserted earliest.
OldestEntry(m, order) == Head(order)

\* A cursor that is advanced but never wrapped.
AdvanceCursorNoWrap(dep) == dep.next_acc + 1

\* state.mrcs.begin(): the entry with the smallest manifest id.
FirstEntry(m, order) == Min(DOMAIN m)

\* Integer division of C++: the quotient is truncated towards zero.
TruncDiv(x, y) == IF x >= 0 THEN x \div y ELSE -((-x) \div y)

\* e.sul.us - lws_now_usecs(), in clock units.
UsecsLeft(e) == (e.us - now) * UsPerSec + (e.frac - usec)

\* rem_time of a hit: (it->second.sul.us - lws_now_usecs()) / LWS_US_PER_SEC.
HitRemTime(e) == TruncDiv(UsecsLeft(e), UsPerSec)

\* The cache after a successful fetch: at capacity the first entry goes and
\* its job is cancelled; the entry is emplaced, filled and scheduled.
CacheInsert(c, m, code, t) ==
  LET first == FirstEntry(c.mrcs, c.order)
      c1 == IF CacheFull(c.mrcs)
              THEN [ mrcs |-> Restrict(c.mrcs, DOMAIN c.mrcs \ {first}),
                     suls |-> c.suls \ {first},
                     order |-> SeqErase(c.order, first),
                     evicted |-> [ id |-> first, smallest |-> Min(DOMAIN c.mrcs),
                                   oldest |-> Head(c.order) ] ]
              ELSE c
  IN [ mrcs |-> MapPut(c1.mrcs, m, [ mrc |-> code, us |-> t + MrcRemTime(t),
                                     frac |-> usec, rem |-> MrcRemTime(t) ]),
       suls |-> c1.suls \cup {m},
       order |-> Append(SeqErase(c1.order, m), m),
       evicted |-> c1.evicted ]

\* ++next_acc, wrapping from cend() to cbegin().
AdvanceCursor(dep) ==
  IF dep.next_acc + 1 = Len(dep.accs) + 1 THEN 1 ELSE dep.next_acc + 1

\* What the handler leaves behind: the response and the fields it wrote.
Outcome(resp, a, c, s, p) ==
  [ resp |-> resp, apps |-> a, mrcs |-> c.mrcs, suls |-> c.suls,
    order |-> c.order, evicted |-> c.evicted, sel |-> s, proc |-> p ]

CurCache ==
  [ mrcs |-> mrcs, suls |-> suls, order |-> mrc_order, evicted |-> mrc_evicted ]

\* A response that changes nothing else.
Reply(resp) == Outcome(resp, apps, CurCache, sel, proc)

\* The codec names of negotiate_enc, in the order it tries them.
Codecs == << "deflate", "br", "zstd" >>

\* accept.contains(name): the name occurs in the text of the header, whose
\* comma-separated tokens are h; a token may carry a weight ("br;q=0").
Contains(h, name) ==
  \E tok \in h : tok = name \/ tok = name \o ";q=0"

\* One test of negotiate_enc: codec c replaces the choice made so far when
\* its buffer exists, its name occurs in the header and it is smaller.
TryCodec(cur, accept, buf, c) ==
  IF buf[c] # 0 /\ Contains(accept, c) /\ buf[c] < cur.size
    THEN [ enc |-> c, size |-> buf[c] ] ELSE cur

\* negotiate_enc(accept, buf).
negotiate_enc(accept, buf) ==
  IF accept = {}
    THEN "none"
    ELSE LET c0 == [ enc |-> "none", size |-> buf.plain ]
             c1 == TryCodec(c0, accept, buf, Codecs[1])
             c2 == TryCodec(c1, accept, buf, Codecs[2])
             c3 == TryCodec(c2, accept, buf, Codecs[3])
         IN c3.enc

\* The body of a 200 on a manifest route: the buffer of the encoding.
EncBody(enc) == IF enc = "none" THEN "manifest" ELSE "manifest." \o enc

\* A catalog stamped ts counts as modified only after second m.
NotModifiedStrictly(ts, m) == ts < m

\* state.timestamp <= timegm(&tm).
NotModified(ts, m) == ts <= m

\* The handler returns 1 before any response is written: libwebsockets
\* closes the connection.
Closed(uri) == Response(uri, 0, "closed", 0, 0)

\* The miss branch of /mrc (server.cpp:428-488): look the depot up, take
\* the account under the cursor, advance the cursor, fetch, and on success
\* insert into the cache.  Dereferencing a cursor that designates no
\* element kills the process; dereferencing a pointer to an erased account
\* is a use after free: the process dies (ub = "crash") or goes on with the
\* stale client.
MrcMiss(req, fetch, ub) ==
  IF ~HasDepot(apps, req.app_id, req.depot_id)
    THEN Reply(Response(req.uri, 401, "status", 0, 0))
  ELSE
    LET k == << req.app_id, req.depot_id >>
        dep == apps[req.app_id].depots[req.depot_id]
    IN IF dep.next_acc \notin 1..Len(dep.accs)
         THEN Outcome(Response(req.uri, 0, "crash", 0, 0), apps, CurCache, sel,
                      "crashed")
       ELSE
         LET acc == dep.accs[dep.next_acc]
             apps1 == [ apps EXCEPT ![req.app_id].depots[req.depot_id].next_acc =
                                      AdvanceCursor(dep) ]
             sel1 == IF Len(sel[k]) < MaxSel
                       THEN [ sel EXCEPT ![k] = Append(@, acc) ] ELSE sel
         IN IF acc \notin DOMAIN accounts /\ ub = "crash"
              THEN Outcome(Response(req.uri, 0, "crash", acc, 0), apps, CurCache,
                           sel, "crashed")
            ELSE IF ~fetch.res.ok
              THEN Outcome(
                     Response(req.uri,
                              IF fetch.res.type = "sub" /\ fetch.res.aux = "cm_timeout"
                                THEN 504 ELSE 500,
                              "status", acc, 0),
                     apps1, CurCache, sel1, proc)
            ELSE Outcome(Response(req.uri, 200, "mrc", acc, MrcRemTime(now)),
                         apps1,
                         CacheInsert(CurCache, req.manifest_id, fetch.code, now),
                         sel1, proc)

\* LWS_CALLBACK_HTTP as a function of the request and of what the CM fetch
\* of a miss yields.
HandleHttp(req, fetch, ub) ==
  IF Unavailable(cur_status)
    THEN Reply(Response(req.uri, 503, "status", 0, 0))
  ELSE IF req.uri \in { "/manifest", "/manifest-bin" }
    THEN IF req.method # "GET"
           THEN Reply(Response(req.uri, 405, "status", 0, 0))
         ELSE IF ~req.ims.fits
           THEN Reply(Closed(req.uri))
         ELSE IF req.ims.present /\ GetTimeOk(req.ims.tm)
                   /\ NotModified(timestamp, Timegm(req.ims.tm))
           THEN Reply(Response(req.uri, 304, "none", 0, 0))
         ELSE IF ~req.ae_fits
           THEN Reply(Closed(req.uri))
         ELSE Reply(Response(req.uri, 200,
                             EncBody(negotiate_enc(req.accept, http_bufs)),
                             0, 0))
  ELSE IF req.uri = "/mrc"
    THEN IF req.method # "GET"
           THEN Reply(Response(req.uri, 405, "status", 0, 0))
         ELSE IF ~req.args_ok
           THEN Reply(Response(req.uri, 400, "status", 0, 0))
         ELSE IF req.manifest_id \in DOMAIN mrcs /\ mrcs[req.manifest_id].mrc # 0
           THEN Reply(Response(req.uri, 200, "mrc", 0,
                               HitRemTime(mrcs[req.manifest_id])))
         ELSE MrcMiss(req, fetch, ub)
  ELSE Reply(Response(req.uri, 404, "status", 0, 0))

\* The HTTP handler as a step of the event loop.
http(req, fetch, ub) ==
  /\ proc = "run"
  /\ LET o == HandleHttp(req, fetch, ub)
     IN /\ last_http' = o.resp
        /\ apps' = o.apps
        /\ mrcs' = o.mrcs
        /\ suls' = o.suls
        /\ mrc_order' = o.order
        /\ mrc_evicted' = o.evicted
        /\ sel' = o.sel
        /\ proc' = o.proc
  /\ UNCHANGED << cur_status, accounts, depot_keys, num_ready_accs,
                  manifest_dirty, state_dirty, timestamp, manifest, state_file,
                  exit_code, num_cm_connections, wake, now, usec, http_bufs,
                  download_lock, sessions,
                  s_ctx, entry >>

\* The request reaches tek_sc_cm_get_mrc and ts3_os_futex_wait: a
\* well-formed GET /mrc while running that misses the cache, names a depot
\* of the catalog and finds a CM client under the cursor.
Waits(req, ub) ==
  /\ ~Unavailable(cur_status)
  /\ req.uri = "/mrc" /\ req.method = "GET" /\ req.args_ok
  /\ ~(req.manifest_id \in DOMAIN mrcs /\ mrcs[req.manifest_id].mrc # 0)
  /\ HasDepot(apps, req.app_id, req.depot_id)
  /\ LET dep == apps[req.app_id].depots[req.depot_id]
     IN /\ dep.next_acc \in 1..Len(dep.accs)
        /\ dep.accs[dep.next_acc] \in DOMAIN accounts \/ ub = "stale"

\* The /mrc handler up to its wait (server.cpp:428-457): the cursor is
\* advanced, the request handed to the CM client and the event-loop thread
\* sleeps in ts3_os_futex_wait on entry.finished.
mrc_wait(req, ub) ==
  /\ proc = "run"
  /\ Waits(req, ub)
  /\ LET k == << req.app_id, req.depot_id >>
         dep == apps[req.app_id].depots[req.depot_id]
         acc == dep.accs[dep.next_acc]
     IN /\ apps' = [ apps EXCEPT ![req.app_id].depots[req.depot_id].next_acc =
                                   AdvanceCursor(dep) ]
        /\ sel' = IF Len(sel[k]) < MaxSel
                    THEN [ sel EXCEPT ![k] = Append(@, acc) ] ELSE sel
        /\ entry' = [ NoEntry EXCEPT !.st = "waiting", !.uri = req.uri,
                                     !.manifest_id = req.manifest_id,
                                     !.acc = acc ]
  /\ proc' = "waiting"
  /\ UNCHANGED << cur_status, accounts, depot_keys, num_ready_accs,
                  manifest_dirty, state_dirty, timestamp, manifest, state_file,
                  exit_code, num_cm_connections, mrcs, suls, mrc_order,
                  mrc_evicted, wake, now, usec, http_bufs,
                  download_lock, sessions, s_ctx, last_http >>

\* cb_mrc() on the CM thread, after tek-steamclient stored the result:
\* entry.finished is set and the futex woken.  A completion that arrives
\* after the handler returned writes to a dead stack frame (ub: the
\* process dies or goes on).
cb_mrc(fetch, ub) ==
  /\ proc # "crashed"
  /\ entry.st \in { "waiting", "done" }
  /\ ~entry.finished
  /\ entry' = IF entry.st = "waiting"
                THEN [ entry EXCEPT !.finished = TRUE, !.result = fetch.res,
                                    !.request_code = fetch.code ]
                ELSE [ entry EXCEPT !.finished = TRUE ]
  /\ proc' = IF entry.st = "done" /\ ub = "crash" THEN "crashed" ELSE proc
  /\ KeepBundle
  /\ UNCHANGED << cur_status, accounts, num_ready_accs, exit_code,
                  num_cm_connections, mrcs, suls, mrc_order, mrc_evicted, wake,
                  now, usec, http_bufs,
                  download_lock, sessions, s_ctx, last_http >>

\* The status of a failed fetch: 504 for the sub-type error cm_timeout, 500
\* for any other result.
FetchStatus(res) ==
  IF res.type = "sub" /\ res.aux = "cm_timeout" THEN 504 ELSE 500

\* The /mrc handler after its wait (server.cpp:458-527): the futex was
\* woken or the 2 seconds elapsed; a result that is not a success is
\* answered by its status, a success is cached and answered.
mrc_resume ==
  /\ proc = "waiting"
  /\ proc' = "run"
  /\ entry' = [ entry EXCEPT !.st = "done" ]
  /\ IF ~entry.result.ok
       THEN /\ last_http' = Response(entry.uri, FetchStatus(entry.result),
                                     "status", entry.acc, 0)
            /\ UNCHANGED << mrcs, suls, mrc_order, mrc_evicted >>
       ELSE LET c == CacheInsert(CurCache, entry.manifest_id,
                                 entry.request_code, now)
            IN /\ last_http' = Response(entry.uri, 200, "mrc", entry.acc,
                                        MrcRemTime(now))
               /\ mrcs' = c.mrcs
               /\ suls' = c.suls
               /\ mrc_order' = c.order
               /\ mrc_evicted' = c.evicted
  /\ KeepBundle
  /\ UNCHANGED << cur_status, accounts, num_ready_accs, exit_code,
                  num_cm_connections, wake, now, usec, http_bufs,
                  download_lock, sessions, s_ctx >>

\* The size of the buffer negotiate_enc selects.
BodySize(enc, buf) == IF enc = "none" THEN buf.plain ELSE buf[enc]

\* LWS_CALLBACK_HTTP for a /manifest or /manifest-bin request that is
\* answered with a body, on connection c: the first packet carries the
\* headers and the first room bytes of the body.  A short write closes the
\* connection; a body that does not fit leaves session.data to send, takes
\* a reference on the download lock and asks for a writeable callback.
http_manifest(c, req, room, wrote) ==
  /\ proc = "run"
  /\ sessions[c] = NoSession
  /\ download_lock.ref_count < MaxRefs
  /\ req.uri \in { "/manifest", "/manifest-bin" }
  /\ LET o == HandleHttp(req, FetchOk(0), "stale")
         size == BodySize(negotiate_enc(req.accept, http_bufs), http_bufs)
         send_size == IF size < room THEN size ELSE room
         done == send_size = size
     IN /\ o.resp.code = 200
        /\ last_http' = IF wrote THEN o.resp ELSE Closed(req.uri)
        /\ IF wrote /\ ~done
             THEN /\ sessions' = [ sessions EXCEPT
                                     ![c] = Sending(size - send_size, manifest) ]
                  /\ download_lock' = lock(download_lock)
             ELSE UNCHANGED << sessions, download_lock >>
  /\ KeepBundle
  /\ UNCHANGED << cur_status, accounts, num_ready_accs, exit_code,
                  num_cm_connections, mrcs, suls, mrc_order, mrc_evicted,
                  wake, proc, now, usec, http_bufs, s_ctx, entry >>

\* LWS_CALLBACK_HTTP_WRITEABLE on connection c: the next tx_size bytes of
\* session.data; the reference is dropped after the final packet and after
\* a short write.
http_writeable(c, wrote) ==
  /\ proc = "run"
  /\ sessions[c] # NoSession
  /\ LET left == sessions[c].left
         send_size == IF left < TxSize THEN left ELSE TxSize
         done == send_size = left
     IN IF ~wrote \/ done
          THEN /\ download_lock' = unlock(download_lock)
               /\ sessions' = [ sessions EXCEPT ![c] = NoSession ]
          ELSE /\ sessions' = [ sessions EXCEPT ![c].left = left - send_size ]
               /\ UNCHANGED download_lock
  /\ KeepBundle
  /\ UNCHANGED << cur_status, accounts, num_ready_accs, exit_code,
                  num_cm_connections, mrcs, suls, mrc_order, mrc_evicted,
                  wake, proc, now, usec, http_bufs, s_ctx, entry, last_http >>

\* The client of connection c goes away between two packets:
\* libwebsockets destroys the session; tsc_lws_cb has no case for the
\* close of an HTTP connection.
http_closed(c) ==
  /\ proc = "run"
  /\ sessions[c] # NoSession
  /\ sessions' = [ sessions EXCEPT ![c] = NoSession ]
  /\ KeepBundle
  /\ UNCHANGED << cur_status, accounts, num_ready_accs, exit_code,
                  num_cm_connections, mrcs, suls, mrc_order, mrc_evicted,
                  wake, proc, now, usec, http_bufs, s_ctx, entry,
                  download_lock, last_http >>

\* remove_mrc_cache(): the removal job of entry m fires, at or after its
\* time.
remove_mrc_cache(m) ==
  /\ proc = "run"
  /\ m \in suls
  /\ UsecsLeft(mrcs[m]) <= 0
  /\ mrcs' = Restrict(mrcs, DOMAIN mrcs \ {m})
  /\ suls' = suls \ {m}
  /\ mrc_order' = SeqErase(mrc_order, m)
  /\ KeepBundle
  /\ UNCHANGED << cur_status, accounts, num_ready_accs, exit_code,
                  num_cm_connections, mrc_evicted, wake, proc, now, usec,
                  http_bufs, download_lock, sessions, s_ctx, entry, last_http >>

\* The wall clock advances by d seconds, up to limit.
Tick(d, limit) ==
  /\ proc = "run"
  /\ now + d <= limit
  /\ now' = now + d
  /\ KeepBundle
  /\ UNCHANGED << cur_status, accounts, num_ready_accs, exit_code,
                  num_cm_connections, mrcs, suls, mrc_order, mrc_evicted,
                  wake, proc, usec, http_bufs,
                  download_lock, sessions, s_ctx, entry, last_http >>

\* ------------------------------------------------ lifecycle specification

\* The depot ids Steam lists in the packages of an account: account 2 may
\* or may not hold a license for depot 10.
OwnedChoices(a) == IF a = 2 THEN { {}, {10} } ELSE { {10} }

LifePkg(a) ==
  { [ result |-> Ok, entry_err |-> FALSE, depotids |-> d, appids |-> AppIds ] :
      d \in OwnedChoices(a) }

\* The app-info response for app 1 with workshopdepot w.
AppInfoOf(w) ==
  [ result |-> Ok,
    entries |-> << [ id |-> 1, result |-> Ok, vdf |-> Vdf(TRUE, "n1", w, {10}) ] >> ]

TokensOk == [ result |-> Ok, entry_err |-> FALSE ]

\* The connection of an account that is online may drop at any time; a
\* requested disconnect completes.
Drops(a) == accounts[a].pc \in { "online", "disconnecting" }

CmStep ==
  \/ \E a \in DOMAIN accounts, res \in RequestResults : cb_connected(a, res, TRUE)
  \/ \E a \in DOMAIN accounts : Drops(a) /\ cb_disconnected(a)
  \/ \E a \in DOMAIN accounts, res \in SignInResults : cb_signed_in(a, res)
  \/ \E a \in DOMAIN accounts : cb_lics(a, Ok, 1)
  \/ \E a \in DOMAIN accounts : \E resp \in LifePkg(a) : cb_package_info(a, resp)
  \/ \E a \in DOMAIN accounts : cb_access_tokens(a, TokensOk)
  \/ \E a \in DOMAIN accounts : cb_app_info(a, AppInfoOf(0))

\* One request per route and refusal of the lifecycle specification.
PlainRequests ==
  { Req("/manifest", "GET", NoIms, FALSE, 0, 0, 0),
    Req("/", "GET", NoIms, FALSE, 0, 0, 0),
    MrcReq("POST", TRUE, 1, 10, 100) }

GoodMrc == { MrcReq("GET", TRUE, 1, 10, m) : m \in LifecycleManifestIds }

UbChoices == { "crash", "stale" }

LoopStep ==
  \/ EventWaitCancelled
  \/ ts3_stop
  \/ \E req \in PlainRequests : http(req, FetchOk(7), "stale")
  \/ \E req \in GoodMrc, ub \in UbChoices : http(req, FetchOk(7), ub)

Next == CmStep \/ LoopStep

Spec == Init /\ [][Next]_vars

\* ----------------------------------------------------- catalog properties

Depots == { k \in AppIds \X DepotIds : HasDepot(apps, k[1], k[2]) }
DepotAt(k) == apps[k[1]].depots[k[2]]

\* C1: while the status is running every depot of every app has a
\* non-empty accs list and every app has at least one depot.
C1_RunningCatalogOwned ==
  cur_status = "running" =>
    /\ \A x \in DOMAIN apps : DOMAIN apps[x].depots # {}
    /\ \A k \in Depots : DepotAt(k).accs # << >>

\* C2: while the status is running (the /mrc handler looks depots up) the
\* cursor next_acc of every depot designates an element of its accs list.
C2_RunningCursorValid ==
  cur_status = "running" =>
    \A k \in Depots : DepotAt(k).next_acc \in 1..Len(DepotAt(k).accs)

\* C3: an account whose sign-in reported access_denied or invalid_signature
\* (it is marked for removal or already erased) is in no depot's accs list.
C3_NoInvalidatedOwner ==
  \A k \in Depots : \A i \in 1..Len(DepotAt(k).accs) :
    /\ DepotAt(k).accs[i] \in DOMAIN accounts
    /\ accounts[DepotAt(k).accs[i]].rem_status = "none"

\* C4: the status changes from setup to running only in a state where
\* every account of the map that is not marked for removal is ready.
C4_RunningOnlyWhenAllReady ==
  [][ (cur_status = "setup" /\ cur_status' = "running") =>
        \A a \in DOMAIN accounts' :
          accounts'[a].rem_status = "none" => accounts'[a].ready ]_vars

\* C5: while the status is setup the only HTTP response ever sent is a
\* bare 503, nothing was fetched from a CM client and nothing is cached.
C5_SetupAnswers503 ==
  cur_status = "setup" =>
    /\ \/ last_http = NoResponse
       \/ /\ last_http.code = 503
          /\ last_http.body = "status"
          /\ last_http.acc = 0
    /\ DOMAIN mrcs = {}
    /\ \A k \in DOMAIN sel : sel[k] = << >>

\* A POST to /mrc during setup was answered 503.
C5_Witness ==
  /\ cur_status = "setup"
  /\ last_http.code = 503
  /\ last_http.uri = "/mrc"

\* ------------------------------------------------ harvest specification

\* The state file holds no key, or the key of depot 10 only.
InitKeys ==
  /\ http_bufs = PlainBufs
  /\ now = T0
  /\ \E f \in StateFiles({ {}, {10} }) : ts3_init(f, T0)

HarvestSignIn == { Ok, Err("steam_cm", "service_unavailable") }

\* Every account holds a license for depot 10 and the app-info response
\* names the workshop depot 11, so that a harvest has up to two requests;
\* key requests get every kind of result.
PkgOwnsTen ==
  [ result |-> Ok, entry_err |-> FALSE, depotids |-> {10}, appids |-> AppIds ]

NextKeys ==
  \/ \E a \in DOMAIN accounts : cb_connected(a, Ok, TRUE)
  \/ \E a \in DOMAIN accounts : Drops(a) /\ cb_disconnected(a)
  \/ \E a \in DOMAIN accounts, res \in HarvestSignIn : cb_signed_in(a, res)
  \/ \E a \in DOMAIN accounts : cb_lics(a, Ok, 1)
  \/ \E a \in DOMAIN accounts : cb_package_info(a, PkgOwnsTen)
  \/ \E a \in DOMAIN accounts : cb_access_tokens(a, TokensOk)
  \/ \E a \in DOMAIN accounts : cb_app_info(a, AppInfoOf(11))
  \/ \E a \in DOMAIN accounts : \E i \in accounts[a].dk_sent, res \in KeyResults :
       cb_depot_key(a, i, res)
  \/ ts3_stop
  \/ EventWaitCancelled

SpecKeys == InitKeys /\ [][NextKeys]_vars

FileRR ==
  [ accounts |-> { Token(a, FALSE) : a \in RRAccs },
    apps |-> [ x \in {1} |-> {10} ], depot_keys |-> DepotIds, timestamp |-> 0 ]

InitRR ==
  /\ http_bufs = PlainBufs
  /\ now = T0
  /\ ts3_init(FileRR, T0)

RRSignIn == { Ok, Err("steam_cm", "access_denied") }

RRRequests == { MrcReq("GET", TRUE, 1, 10, m) : m \in {100, 101} }

RRFetch == { FetchOk(7), FetchErr(Err("sub", "cm_timeout")) }

\* No other account is between its sign-in and its app info: the accounts
\* of this specification go through the pipeline one at a time.
Quiet(a) ==
  \A b \in DOMAIN accounts \ {a} :
    accounts[b].pc \in { "idle", "connecting", "online" }

\* The connection of account 1 may drop once it is online; requested
\* disconnects complete.
DropsRR(a) ==
  \/ accounts[a].pc = "disconnecting"
  \/ a \in {1} /\ accounts[a].pc = "online" /\ Quiet(a)

\* Every account owns depot 10; a token may be found invalidated at any
\* sign-in; /mrc requests for two manifests of depot 10 hit or miss, and a
\* miss's fetch succeeds or times out.
NextRR ==
  \/ \E a \in DOMAIN accounts : Quiet(a) /\ cb_connected(a, Ok, TRUE)
  \/ \E a \in DOMAIN accounts : DropsRR(a) /\ cb_disconnected(a)
  \/ \E a \in DOMAIN accounts, res \in RRSignIn : cb_signed_in(a, res)
  \/ \E a \in DOMAIN accounts : cb_lics(a, Ok, 1)
  \/ \E a \in DOMAIN accounts : cb_package_info(a, PkgOwnsTen)
  \/ \E a \in DOMAIN accounts : cb_access_tokens(a, TokensOk)
  \/ \E a \in DOMAIN accounts : cb_app_info(a, AppInfoOf(0))
  \/ EventWaitCancelled
  \/ \E req \in RRRequests, f \in RRFetch, ub \in UbChoices : http(req, f, ub)

SpecRR == InitRR /\ [][NextRR]_vars

\* C6: the accounts selected by the misses on a depot since its accs list
\* last changed are accs[1], accs[2], ... cyclically, and the cursor has
\* advanced exactly once per miss (hits and failed fetches included).
C6_RoundRobin ==
  \A k \in Depots :
    LET dep == DepotAt(k)
        n == Len(dep.accs)
        h == sel[k]
    IN n > 0 =>
         /\ \A i \in 1..Len(h) : h[i] = dep.accs[((i - 1) % n) + 1]
         /\ Len(h) < MaxSel => dep.next_acc = (Len(h) % n) + 1

\* Depot 10 has three accounts, MaxSel misses went around them and the
\* last request was a cache hit.
C6_Witness ==
  /\ HasDepot(apps, 1, 10)
  /\ Len(apps[1].depots[10].accs) = 3
  /\ Len(sel[<< 1, 10 >>]) = MaxSel
  /\ last_http.code = 200
  /\ last_http.body = "mrc"
  /\ last_http.acc = 0

\* ----------------------------------------------------- cache specification

\* A state file with the token of one account, app 1 with depot 10 and
\* every key.
FileSolo ==
  [ accounts |-> { Token(1, FALSE) }, apps |-> [ x \in {1} |-> {10} ],
    depot_keys |-> DepotIds, timestamp |-> 0 ]

\* The pipeline of an account without failures.
SoloStep ==
  \/ \E a \in DOMAIN accounts : cb_connected(a, Ok, TRUE)
  \/ \E a \in DOMAIN accounts : cb_signed_in(a, Ok)
  \/ \E a \in DOMAIN accounts : cb_lics(a, Ok, 1)
  \/ \E a \in DOMAIN accounts : cb_package_info(a, PkgOwnsTen)
  \/ \E a \in DOMAIN accounts : cb_access_tokens(a, TokensOk)
  \/ \E a \in DOMAIN accounts : cb_app_info(a, AppInfoOf(0))

InitMrc ==
  /\ http_bufs = PlainBufs
  /\ now = T0
  /\ ts3_init(FileSolo, T0)

\* The clock of the cache specification advances in steps of TickStep.
TickStep == 150

CacheRequests == { MrcReq("GET", TRUE, 1, 10, m) : m \in ManifestIds }

NextMrc ==
  \/ SoloStep
  \/ \E req \in CacheRequests, f \in RRFetch : http(req, f, "stale")
  \/ \E m \in ManifestIds : remove_mrc_cache(m)
  \/ Tick(TickStep, T0 + MaxNow)

SpecMrc == InitMrc /\ [][NextMrc]_vars

\* An insertion: the manifest ids the step added to the cache.
Inserted == DOMAIN mrcs' \ DOMAIN mrcs

\* C8: no step leaves more than MrcCacheCap entries in the cache (it
\* starts empty) or an entry without its removal job; an insertion into a
\* full cache removes the entry with the smallest manifest id and cancels
\* its job, any other insertion removes nothing.
C8_CacheBounded ==
  [][ /\ Cardinality(DOMAIN mrcs') <= MrcCacheCap
      /\ suls' = DOMAIN mrcs'
      /\ \A m \in Inserted :
           LET gone == IF Cardinality(DOMAIN mrcs) = MrcCacheCap
                         THEN { Min(DOMAIN mrcs) } ELSE {}
           IN /\ DOMAIN mrcs' = (DOMAIN mrcs \ gone) \cup {m}
              /\ suls' = (suls \ gone) \cup {m} ]_vars

\* The cache is full right after the capacity forced an eviction.
C8_Witness ==
  /\ mrc_evicted.id # 0
  /\ mrc_evicted.id \notin DOMAIN mrcs
  /\ Cardinality(DOMAIN mrcs) = MrcCacheCap

\* The original eviction statement: the entry evicted by the capacity is
\* the one inserted earliest.
C9_EvictsOldest == mrc_evicted.id = mrc_evicted.oldest

\* C9 (amended): the entry evicted by the capacity is the one with the
\* smallest manifest id among those cached.
C9_EvictsSmallestId == mrc_evicted.id = mrc_evicted.smallest

\* The capacity evicted an entry that was not the earliest inserted.
C9_Witness ==
  /\ mrc_evicted.id # 0
  /\ mrc_evicted.id # mrc_evicted.oldest

\* ------------------------------------------------------- TTL specification

\* The wall clock at start is any second of two refresh periods.
InitTTL ==
  /\ http_bufs = PlainBufs
  /\ now \in T0..(T0 + MaxNow)
  /\ ts3_init(FileSolo, now)

NextTTL ==
  \/ SoloStep
  \/ \E f \in RRFetch : http(MrcReq("GET", TRUE, 1, 10, 100), f, "stale")

SpecTTL == InitTTL /\ [][NextTTL]_vars

\* C10: an entry inserted at second t (the clock of this specification
\* stands still, so t = now) is evicted at e with 0 < e - t <= 300 and
\* e mod 300 = 240, and the max-age of a miss is in 1..300.
C10_EvictionTime ==
  /\ \A m \in DOMAIN mrcs :
       /\ 0 < mrcs[m].us - now
       /\ mrcs[m].us - now <= MrcPeriod
       /\ mrcs[m].us % MrcPeriod = MrcPhase
  /\ (last_http.body = "mrc" /\ last_http.acc # 0) =>
       last_http.max_age \in 1..MrcPeriod

\* A miss in second 240 of a period: the entry lives a whole period.
C10_Witness ==
  /\ \E m \in DOMAIN mrcs : mrcs[m].us - now = MrcPeriod
  /\ last_http.body = "mrc"
  /\ last_http.acc # 0
  /\ last_http.max_age = MrcPeriod

\* ------------------------------------------------- cache-hit specification

\* The first wall-clock second of the cache-hit specification, two seconds
\* before a refresh, and the seconds it covers.
HitStart == 1138
HitSpan == 4

\* The clock advances by one unit, up to second limit.
Tock(limit) ==
  /\ proc = "run"
  /\ now * UsPerSec + usec + 1 <= limit * UsPerSec
  /\ usec' = (usec + 1) % UsPerSec
  /\ now' = IF usec + 1 = UsPerSec THEN now + 1 ELSE now
  /\ KeepBundle
  /\ UNCHANGED << cur_status, accounts, num_ready_accs, exit_code,
                  num_cm_connections, mrcs, suls, mrc_order, mrc_evicted,
                  wake, proc, http_bufs,
                  download_lock, sessions, s_ctx, entry, last_http >>

\* lws_now_usecs() has advanced since every cached entry was inserted: a
\* request is handled at a later clock value than the insertions before it.
ClockAdvanced ==
  \A m \in DOMAIN mrcs :
    (mrcs[m].us - mrcs[m].rem) * UsPerSec + mrcs[m].frac < now * UsPerSec + usec

InitHit ==
  /\ http_bufs = PlainBufs
  /\ now = HitStart
  /\ ts3_init(FileSolo, HitStart)

\* One account, one manifest id; the removal job of an entry runs at its
\* time or later, when the loop next services its timers.
NextHit ==
  \/ SoloStep
  \/ \E f \in RRFetch :
       ClockAdvanced /\ http(MrcReq("GET", TRUE, 1, 10, 100), f, "stale")
  \/ remove_mrc_cache(100)
  \/ Tock(HitStart + HitSpan)

SpecHit == InitHit /\ [][NextHit]_vars

\* A response served from the cache: no account was selected.
IsHit(r) == r.code = 200 /\ r.body = "mrc" /\ r.acc = 0

\* C11: a request answered from the cache selects no account, leaves
\* every cursor and the cache as they are, and its max-age is not negative
\* and strictly smaller than the max-age of the miss that inserted the
\* entry.
C11_HitServedFromCache ==
  [][ (last_http' # last_http /\ IsHit(last_http')) =>
        /\ apps' = apps
        /\ sel' = sel
        /\ mrcs' = mrcs
        /\ \A m \in DOMAIN mrcs :
             /\ last_http'.max_age >= 0
             /\ last_http'.max_age < mrcs[m].rem ]_vars

\* ------------------------------------------- conditional-GET specification

\* The timestamps a state file may carry and the seconds named by the
\* If-Modified-Since headers of the requests.
ImsStamps == { 0, 1000, 1020 }
ImsTimes == { 999, 1000, 1001, 1019, 1020, 1021 }

\* Header texts that are no date, or a date with a field out of range, or
\* a date whose second is 60.
HourOutOfRange == [ ok |-> TRUE, day |-> 0, hh |-> 24, mm |-> 0, ss |-> 0 ]
LeapSecond == [ ok |-> TRUE, day |-> 0, hh |-> 0, mm |-> 16, ss |-> 60 ]

ImsHeaders ==
  { NoIms }
    \cup { ImsText(fits, tm) :
             fits \in BOOLEAN,
             tm \in { FormatDate(t) : t \in ImsTimes }
                      \cup { Garbage, HourOutOfRange, LeapSecond } }

ManifestUris == { "/manifest", "/manifest-bin" }

ImsRequests ==
  LET short == { Req(u, "GET", h, FALSE, 0, 0, 0) : u \in ManifestUris,
                                                     h \in ImsHeaders }
  IN short \cup { LongAccept(r) : r \in short }

InitIms ==
  /\ http_bufs = PlainBufs
  /\ now = T0
  /\ \E ts \in ImsStamps : ts3_init([ FileSolo EXCEPT !.timestamp = ts ], T0)

NextIms ==
  \/ SoloStep
  \/ \E req \in ImsRequests : http(req, FetchOk(7), "stale")
  \/ ts3_stop
  \/ EventWaitCancelled

SpecIms == InitIms /\ [][NextIms]_vars

\* What the handler answers to req in the current state.
Answer(req) == HandleHttp(req, FetchOk(7), "stale").resp

\* The conditional GET of the claim, for the requests reqs: a date header
\* naming second t gets 304 without a body if t >= timestamp and 200 with
\* the manifest otherwise; an absent or unparsable header gets 200.
ConditionalGet(reqs) ==
  cur_status = "running" =>
    /\ \A req \in reqs :
         \A t \in ImsTimes :
           (req.ims.present /\ req.ims.tm = FormatDate(t)) =>
             IF t >= timestamp
               THEN Answer(req).code = 304 /\ Answer(req).body = "none"
               ELSE Answer(req).code = 200 /\ Answer(req).body = "manifest"
    /\ \A req \in reqs :
         (~req.ims.present \/ ~GetTimeOk(req.ims.tm)) =>
           Answer(req).code = 200 /\ Answer(req).body = "manifest"

\* The original statement of C12: the conditional GET holds for every GET
\* of a manifest route.
C12_ConditionalGetAnyHeader == ConditionalGet(ImsRequests)

\* C12 (amended): the conditional GET holds for the requests whose
\* If-Modified-Since and Accept-Encoding headers fit the handler's 256-byte
\* buffer.
C12_ConditionalGet ==
  ConditionalGet({ req \in ImsRequests : req.ims.fits /\ req.ae_fits })

\* The binary manifest was asked for with the catalog's own timestamp as
\* If-Modified-Since and answered 304 without a body.
C12_Witness ==
  /\ cur_status = "running"
  /\ timestamp \in ImsTimes
  /\ last_http = Response("/manifest-bin", 304, "none", 0, 0)
  /\ Answer(Req("/manifest-bin", "GET", ImsAt(timestamp), FALSE, 0, 0, 0))
       = last_http

\* ---------------------------------------------- negotiation specification

\* Buffer sizes: the plain buffer has MaxBuf - 1 bytes, every compressed
\* variant is absent (0), smaller, as large, or larger.
MaxBuf == 3

BufChoices ==
  [ plain : { MaxBuf - 1 }, deflate : 0..MaxBuf, br : 0..MaxBuf, zstd : 0..MaxBuf ]

\* Accept-Encoding headers: none, identity, and every list of these tokens.
AcceptHeaders ==
  { {"identity"} } \cup SUBSET { "deflate", "br", "zstd", "gzip", "deflate;q=0" }

EncRequests ==
  { WithAccept(Req(u, "GET", NoIms, FALSE, 0, 0, 0), h) :
      u \in ManifestUris, h \in AcceptHeaders }

InitEnc ==
  /\ http_bufs \in BufChoices
  /\ now = T0
  /\ ts3_init(FileSolo, T0)

NextEnc ==
  \/ SoloStep
  \/ \E req \in EncRequests : http(req, FetchOk(7), "stale")

SpecEnc == InitEnc /\ [][NextEnc]_vars

\* The codecs a header offers: its tokens that name a codec (a token with
\* the weight q=0 refuses the codec) and have a compressed buffer.
Offered(h, buf) == { c \in Range(Codecs) : c \in h /\ buf[c] # 0 }

\* C13: negotiate_enc returns an offered codec with a buffer whose size is
\* minimal among them, if that size is strictly smaller than the plain
\* size, and identity otherwise; identity for an empty header and for
\* "identity"; never a variant that is not smaller than the plain buffer.
C13_NegotiatesSmallestOffered ==
  \A h \in AcceptHeaders :
    LET e == negotiate_enc(h, http_bufs)
        cands == Offered(h, http_bufs)
        sizes == { http_bufs[c] : c \in cands }
    IN /\ IF cands # {} /\ Min(sizes) < http_bufs.plain
            THEN e \in cands /\ http_bufs[e] = Min(sizes)
            ELSE e = "none"
       /\ (h = {} \/ h = {"identity"}) => e = "none"
       /\ e # "none" => http_bufs[e] < http_bufs.plain

\* ------------------------------------------------- sign-in specification

\* One account (Steam ID 1, token not renewable) is loaded from the state
\* file; sign-in sessions obtain tokens for that Steam ID and for a new
\* one.
SigninIds == { 1, 3 }

ClientMsgs ==
  { NotJson, Msg("", {}), Msg("qr", {}),
    Msg("credentials", { "account_name", "password" }),
    Msg("credentials", { "account_name" }),
    Msg("guard_code", { "code" }), Msg("email", { "code" }),
    Msg("guard_code", {}), Msg("device", { "code" }) }

\* A frame: whether it is binary, whether it is whole (final and within
\* the RX buffer) and the text it carries.
Frame(binary, whole, msg) == [ binary |-> binary, whole |-> whole, msg |-> msg ]

Frames ==
  { Frame(TRUE, TRUE, NotJson), Frame(TRUE, FALSE, NotJson),
    Frame(FALSE, FALSE, Msg("qr", {})) }
    \cup { Frame(FALSE, TRUE, m) : m \in ClientMsgs }

\* tek_sc_cm_data_auth_polling: the status, the result and the token.
AuthEvent(status, res, token) ==
  [ status |-> status, res |-> res, token |-> token ]

AuthEvents ==
  { AuthEvent("new_url", Ok, NoToken),
    AuthEvent("awaiting_confirmation", Ok, NoToken),
    AuthEvent("completed", Err("steam_cm", "access_denied"), NoToken) }
    \cup { AuthEvent("completed", Ok,
                     [ steam_id |-> id, renewable |-> r,
                       serial |-> s_ctx.serial ]) :
             id \in SigninIds, r \in BOOLEAN }

InitSignin ==
  /\ http_bufs = PlainBufs
  /\ now = T0
  /\ ts3_init(FileSolo, T0)

NextSignin ==
  \/ ws_established
  \/ \E f \in Frames, created \in BOOLEAN : ws_receive(f, created)
  \/ \E wrote \in BOOLEAN : ws_writeable(wrote)
  \/ ws_closed
  \/ ws_closed_end
  \/ \E res \in RequestResults : cb_auth_connected(res)
  \/ \E ev \in AuthEvents : cb_auth(ev)
  \/ \E dropped \in BOOLEAN : cb_auth_disconnected(dropped)
  \/ \E a \in DOMAIN accounts : cb_connected(a, Ok, TRUE)
  \/ EventWaitCancelled

SpecSignin == InitSignin /\ [][NextSignin]_vars

\* The transitions of the sign-in state machine; any state may also end
\* in disonnected.
SigninTransitions ==
  { << "awaiting_init", "awaiting_cm_response" >>,
    << "awaiting_cm_response", "awaiting_confirmation" >>,
    << "awaiting_confirmation", "awaiting_cm_response" >>,
    << "awaiting_cm_response", "done" >> }

\* C14: the state of a sign-in context only follows AwaitingInit ->
\* AwaitingCmResponse -> (AwaitingConfirmation -> AwaitingCmResponse)* ->
\* Done | Disconnected; once a confirmation code has been accepted the
\* state is AwaitingCmResponse, so that at most one code is submitted per
\* confirmation request.
C14_SigninStateMachine ==
  [][ /\ ( /\ s_ctx'.state # s_ctx.state
           /\ s_ctx.state # "none"
           /\ s_ctx'.state \notin { "none", "disonnected" } )
        => << s_ctx.state, s_ctx'.state >> \in SigninTransitions
      /\ s_ctx'.codes > s_ctx.codes
        => /\ s_ctx'.state = "awaiting_cm_response"
           /\ s_ctx'.codes <= 1 ]_vars

\* How many times message m was written to the client.
TimesSent(ctx, m) == Cardinality({ i \in 1..Len(ctx.sent) : ctx.sent[i] = m })

\* C15: when CM authentication of a session completed, the client has
\* received the final message ({renewable, expires?} or {error: ...})
\* exactly once when the server closes the WebSocket (from the writeable
\* callback or by the kill timeout); the CM disconnect callback neither
\* suppresses nor replaces it.
C15_OneFinalMessage ==
  ( /\ s_ctx.final # "none"
    /\ s_ctx.closed_by \in { "writeable", "timeout" } )
    => TimesSent(s_ctx, s_ctx.final) = 1

\* C16: an incoming frame on /signin that is binary, non-final or larger
\* than the RX buffer causes the connection to be dropped: after such a
\* frame the connection is no longer open.
C16_BadFrameDropsConnection ==
  s_ctx.rx \in { "binary", "partial" } => s_ctx.conn # "open"

\* C17: when a sign-in completes with a token for Steam ID s: if s is not
\* in the account map an account is inserted with that token and its CM
\* client connects; if s is present, the new token is renewable and the
\* existing one is not, the existing token and CM client are replaced; in
\* every other case the account map is unchanged.  No other account is
\* touched and the map holds one account per Steam ID.
C17_TokenHandOver ==
  [][ ( /\ s_ctx.state = "done"
        /\ s_ctx'.state = "disonnected"
        /\ s_ctx.token # NoToken )
        => LET tok == s_ctx.token
               s == tok.steam_id
           IN /\ DOMAIN accounts' = DOMAIN accounts \cup { s }
              /\ \A x \in DOMAIN accounts \ { s } : accounts'[x] = accounts[x]
              /\ IF s \notin DOMAIN accounts
                   THEN /\ accounts'[s].token = tok.serial
                        /\ accounts'[s].renewable = tok.renewable
                        /\ accounts'[s].pc = "connecting"
                   ELSE IF tok.renewable /\ ~accounts[s].renewable
                     THEN /\ accounts'[s].token = tok.serial
                          /\ accounts'[s].renewable
                          /\ accounts'[s].pc = "connecting"
                     ELSE accounts' = accounts ]_vars

\* The token of the account loaded from the state file was replaced by
\* the first session and the second session inserted an account for a new
\* Steam ID.
C17_Witness ==
  /\ DOMAIN accounts = SigninIds
  /\ accounts[1].token = 1
  /\ accounts[1].renewable
  /\ accounts[3].token = 2
  /\ s_ctx.state = "disonnected"

\* ------------------------------------------------- removal specification

\* The CM callbacks of account a: its pipeline, a sign-in that Steam may
\* refuse with access_denied, and the disconnect it asked for.
AccountStep(a) ==
  \/ cb_connected(a, Ok, TRUE)
  \/ \E res \in RRSignIn : cb_signed_in(a, res)
  \/ cb_lics(a, Ok, 1)
  \/ cb_package_info(a, PkgOwnsTen)
  \/ cb_access_tokens(a, TokensOk)
  \/ cb_app_info(a, AppInfoOf(0))
  \/ accounts[a].pc = "disconnecting" /\ cb_disconnected(a)

NextReap ==
  \/ \E a \in DOMAIN accounts : AccountStep(a)
  \/ EventWaitCancelled

\* Fair scheduling: the event loop handles a pending wake-up, and the CM
\* thread delivers the callback every account is waiting for.
FairReap ==
  /\ WF_vars(EventWaitCancelled)
  /\ \A a \in { 1, 2 } : WF_vars(a \in DOMAIN accounts /\ AccountStep(a))

SpecReap == Init /\ [][NextReap]_vars /\ FairReap

\* C18: after sign-in reports access_denied or invalid_signature for an
\* account (its removal state is pending_remove), the account is
\* eventually erased from the account map by the event loop, under fair
\* scheduling of the loop and of the CM callbacks.
C18_InvalidatedAccountReaped ==
  \A a \in { 1, 2 } :
    (a \in DOMAIN accounts /\ accounts[a].rem_status = "pending_remove")
      ~> (a \notin DOMAIN accounts)

\* ------------------------------------------------- failure specification

\* Every CM step of an account succeeds or fails: the connect, the sign-in
\* (also with an invalidated token), the token renewal, the licenses, the
\* three PICS requests and the depot key requests; a requested disconnect
\* completes.
CmTimeout == Err("sub", "cm_timeout")

FailSignIn == { Ok, CmTimeout, Err("steam_cm", "access_denied") }

\* The state files of this specification: the token of Steam ID 1 is
\* renewable.
FailFiles ==
  { [ f EXCEPT !.accounts =
        { [ tk EXCEPT !.renewable = (tk.steam_id = 1) ] : tk \in f.accounts } ] :
      f \in StateFiles({ {}, {10} }) }

InitFail ==
  /\ http_bufs = PlainBufs
  /\ now = T0
  /\ \E f \in FailFiles : ts3_init(f, T0)

NextFail ==
  \/ \E a \in DOMAIN accounts, res \in RequestResults, far \in BOOLEAN :
       cb_connected(a, res, far)
  \/ \E a \in DOMAIN accounts, res \in RequestResults, new_token \in BOOLEAN :
       cb_token_renewed(a, res, new_token)
  \/ \E a \in DOMAIN accounts : \E i \in accounts[a].dk_sent, res \in KeyResults :
       cb_depot_key(a, i, res)
  \/ \E a \in DOMAIN accounts, res \in FailSignIn : cb_signed_in(a, res)
  \/ \E a \in DOMAIN accounts, res \in RequestResults : cb_lics(a, res, 1)
  \/ \E a \in DOMAIN accounts, res \in RequestResults :
       cb_package_info(a, [ PkgOwnsTen EXCEPT !.result = res ])
  \/ \E a \in DOMAIN accounts, res \in RequestResults :
       cb_access_tokens(a, [ TokensOk EXCEPT !.result = res ])
  \/ \E a \in DOMAIN accounts, res \in RequestResults :
       cb_app_info(a, [ AppInfoOf(0) EXCEPT !.result = res ])
  \/ \E a \in DOMAIN accounts :
       accounts[a].pc = "disconnecting" /\ cb_disconnected(a)
  \/ EventWaitCancelled

SpecFail == InitFail /\ [][NextFail]_vars

\* C19: an account is erased from the account map only when it is marked
\* remove, a mark that only a sign-in callback starts (none ->
\* pending_remove) and only the disconnect completes (pending_remove ->
\* remove); no token expired at load time is loaded; every state file
\* written holds the tokens of exactly the accounts not marked for
\* removal.  Failed connects, disconnects and failed renewals, licenses,
\* PICS or depot key requests drop no account.
C19_OnlyInvalidTokensDropped ==
  [][ /\ \A a \in DOMAIN accounts :
           IF a \notin DOMAIN accounts'
             THEN accounts[a].rem_status = "remove"
             ELSE accounts'[a].rem_status # accounts[a].rem_status
                    => \/ /\ accounts[a].rem_status = "none"
                          /\ accounts'[a].rem_status = "pending_remove"
                          /\ accounts[a].pc = "sign_in"
                       \/ /\ accounts[a].rem_status = "pending_remove"
                          /\ accounts'[a].rem_status = "remove"
                          /\ accounts[a].pc \in Connected
      /\ \A f \in FailFiles : \A tk \in f.accounts :
           tk.expired => tk.steam_id \notin DOMAIN LoadAccounts(f)
      /\ state_file' # state_file
           => state_file'.accounts =
                { a \in DOMAIN accounts' : accounts'[a].rem_status = "none" }
    ]_vars

\* Account 1 was invalidated and erased, and the state file written since
\* holds the token of account 2 only.
C19_Witness ==
  /\ DOMAIN accounts = { 2 }
  /\ accounts[2].rem_status = "none"
  /\ state_file.written
  /\ state_file.accounts = { 2 }

\* The CM step account a waits for fails, for a reason that is not a token
\* invalidation: its client goes from a request to a disconnect.
FailedStep(a) ==
  /\ accounts[a].pc \in { "connecting", "sign_in", "lics", "pkg", "tokens",
                          "app_info" }
  /\ a \in DOMAIN accounts'
  /\ accounts'[a].pc \in { "disconnecting", "idle" }
  /\ accounts'[a].rem_status = accounts[a].rem_status

\* C20: every failed CM step of an account (connect, sign-in,
\* get-licenses, PICS package info, access tokens, app info) whose error is
\* neither service_unavailable nor a token invalidation drives the process
\* to FATAL: exit_code is failure and the status is stopping.
C20_FailedStepIsFatal ==
  [][ \A a \in DOMAIN accounts :
        FailedStep(a) => exit_code' = 1 /\ cur_status' = "stopping" ]_vars

\* --------------------------------------------------- wait specification

\* /mrc requests that miss wait for their CM reply in two steps; the reply
\* is a code, a reported timeout, another failure, or does not come within
\* the wait.  Meanwhile the accounts go through their pipeline and a
\* sign-in may find a token invalidated, which wakes the event loop.
WaitFetch ==
  { FetchOk(7), FetchErr(Err("sub", "cm_timeout")),
    FetchErr(Err("steam_cm", "access_denied")) }

WaitRequests ==
  RRRequests \cup { MrcReq("GET", TRUE, 2, 10, 100), MrcReq("GET", FALSE, 1, 10, 100) }

NextWait ==
  \/ \E a \in DOMAIN accounts : AccountStep(a)
  \/ EventWaitCancelled
  \/ \E req \in WaitRequests, ub \in UbChoices :
       ~Waits(req, ub) /\ http(req, FetchOk(7), ub)
  \/ \E req \in WaitRequests, ub \in UbChoices : mrc_wait(req, ub)
  \/ \E fetch \in WaitFetch, ub \in UbChoices : cb_mrc(fetch, ub)
  \/ mrc_resume

SpecWait == Init /\ [][NextWait]_vars

\* C21: while a /mrc cache-miss request waits for its CM reply the event
\* loop is not parked: a pending wake-up can be serviced before the reply
\* arrives or the timeout elapses.
C21_LoopServicedWhileWaiting ==
  (entry.st = "waiting" /\ wake) => ENABLED EventWaitCancelled

\* The fetch of the entry failed by timeout: the CM layer reported the
\* cm_timeout subcode, or the wait elapsed without any completion.
TimedOut(e) ==
  \/ ~e.finished
  \/ e.result.type = "sub" /\ e.result.aux = "cm_timeout"

\* C22: a /mrc cache-miss fetch that fails by timeout (reported by the CM
\* layer or by the handler's wait elapsing without a completion) is
\* answered 504, a fetch that fails for any other reason is answered 500,
\* and no failed fetch inserts an entry into the cache.
C22_FailedFetchStatus ==
  [][ ( /\ entry.st = "waiting"
        /\ entry'.st = "done"
        /\ ~entry.result.ok )
        => /\ last_http'.code = IF TimedOut(entry) THEN 504 ELSE 500
           /\ mrcs' = mrcs ]_vars

\* C23: while running, a well-formed GET /mrc whose app_id is not in the
\* catalog, or whose depot_id is not a depot of that app, is answered 401
\* with a status body (no request code) whatever the MRC cache holds, and a
\* GET /mrc with a missing or non-numeric argument is answered 400.
C23_UnknownDepotUnauthorized ==
  \A req \in WaitRequests, fetch \in WaitFetch, ub \in UbChoices :
    (cur_status = "running" /\ req.method = "GET")
      => LET r == HandleHttp(req, fetch, ub).resp
         IN /\ ~req.args_ok => r.code = 400 /\ r.body = "status"
            /\ (req.args_ok /\ ~HasDepot(apps, req.app_id, req.depot_id))
                 => r.code = 401 /\ r.body = "status"

\* --------------------------------------------------- send specification

\* A state file with the token of one account, app 1 with depot 10 and no
\* key, and manifest buffers of three bytes that no codec shrinks: a body
\* takes up to three packets.  The account's harvest asks for the keys of
\* depots 10 and 11 while clients download the manifest.
FileBare == [ FileSolo EXCEPT !.depot_keys = {} ]

BigBufs == [ plain |-> 3, deflate |-> 3, br |-> 0, zstd |-> 3 ]

InitSend ==
  /\ http_bufs = BigBufs
  /\ now = T0
  /\ ts3_init(FileBare, T0)

SendRequests ==
  { Req(u, "GET", NoIms, FALSE, 0, 0, 0) : u \in { "/manifest", "/manifest-bin" } }

SendKeyResults == { Ok, Err("steam_cm", "blocked") }

NextSend ==
  \/ \E a \in DOMAIN accounts : cb_connected(a, Ok, TRUE)
  \/ \E a \in DOMAIN accounts : cb_signed_in(a, Ok)
  \/ \E a \in DOMAIN accounts : cb_lics(a, Ok, 1)
  \/ \E a \in DOMAIN accounts : cb_package_info(a, PkgOwnsTen)
  \/ \E a \in DOMAIN accounts : cb_access_tokens(a, TokensOk)
  \/ \E a \in DOMAIN accounts : cb_app_info(a, AppInfoOf(11))
  \/ \E a \in DOMAIN accounts : \E i \in accounts[a].dk_sent,
                                   res \in SendKeyResults :
       cb_depot_key(a, i, res)
  \/ \E a \in DOMAIN accounts : Drops(a) /\ cb_disconnected(a)
  \/ \E c \in Connections, req \in SendRequests, room \in 1..MaxRoom,
        wrote \in BOOLEAN : http_manifest(c, req, room, wrote)
  \/ \E c \in Connections, wrote \in BOOLEAN : http_writeable(c, wrote)
  \/ \E c \in Connections : http_closed(c)
  \/ Tick(1, T0 + 1)
  \/ ts3_stop
  \/ EventWaitCancelled

SpecSend == InitSend /\ [][NextSend]_vars

\* The connections with a chunked manifest send in progress.
InProgress == { c \in Connections : sessions[c] # NoSession }

\* C24: while the event loop runs, the reference count of the download
\* lock equals the number of chunked manifest sends in progress (one
\* increment per send, one decrement when it ends by its final chunk, a
\* failed write or a disconnect between chunks), so with no send in
\* progress the count is 0 and the lock does not hold manifest_mtx.
C24_RefCountCountsSends ==
  proc = "run" =>
    /\ download_lock.ref_count = Cardinality(InProgress)
    /\ download_lock.locked <=> InProgress # {}

\* C25: no step replaces the manifest buffers or the timestamp while the
\* download-lock reference count is above zero, and the buffer a send in
\* progress reads from is the current build.
C25_NoRebuildDuringSend ==
  [][ download_lock.ref_count > 0
        => /\ manifest' = manifest
           /\ timestamp' = timestamp
           /\ \A c \in InProgress : sessions[c].buf = manifest ]_vars

\* A chunked send is in progress while the answer to a depot-key request,
\* whose handler rebuilds the manifest, is outstanding.
C25_Witness ==
  /\ download_lock.ref_count > 0
  /\ cur_status = "running"
  /\ \E a \in DOMAIN accounts : accounts[a].dk_sent # {}

\* --------------------------------------------------- stop specification

\* The accounts go through their pipeline (a sign-in may find the token
\* invalidated) while ts3_stop may be called at any time, during setup or
\* while running; the event loop handles a pending wake-up and the CM
\* thread delivers the callback every account is waiting for.
NextStop ==
  \/ \E a \in DOMAIN accounts : AccountStep(a)
  \/ ts3_stop
  \/ EventWaitCancelled

SpecStop == Init /\ [][NextStop]_vars /\ FairReap

\* C26: num_cm_connections never underflows, and once ts3_stop has stored
\* stopping the event loop eventually observes it, destroys the
\* libwebsockets context and ts3_run returns.
C26_StopTerminates ==
  /\ [](num_cm_connections >= 0)
  /\ (cur_status = "stopping") ~> (proc = "exited")

\* ------------------------------------------------- update_manifest

\* What a call of update_manifest() in the current state yields.
Updated(saved) == update_manifest_saving(CurBundle, accounts, now, saved)

\* The buffers of the current catalog.
Fresh == Serialize(apps, depot_keys)

\* What a call does when the manifest is dirty: the buffers are
\* regenerated, the timestamp is the current second, both flags end
\* cleared and the state file, if it can be written, carries the new
\* timestamp.
DirtyCall(saved) ==
  LET R == Updated(saved)
  IN /\ R.manifest = Fresh
     /\ R.timestamp = now
     /\ ~R.manifest_dirty
     /\ ~R.state_dirty
     /\ R.state_file = IF saved
                         THEN StateJson([ CurBundle EXCEPT !.timestamp = now ],
                                        accounts)
                         ELSE state_file

\* The original statement of C27: the buffers are regenerated if and only
\* if manifest_dirty is set; a non-dirty call leaves the timestamp and the
\* buffers unchanged.
C27_RebuildIffDirty ==
  \A saved \in BOOLEAN :
    IF manifest_dirty
      THEN DirtyCall(saved)
      ELSE /\ Updated(saved).timestamp = timestamp
           /\ Updated(saved).manifest = manifest

\* C27 (amended): update_manifest regenerates the buffers if and only if
\* manifest_dirty is set or the buffers were never built.  A dirty call
\* sets the timestamp to the current second, clears manifest_dirty and
\* sets state_dirty, which the state write clears, also when the write
\* fails; a non-dirty call leaves the timestamp unchanged, builds the
\* buffers if they were never built and otherwise leaves them unchanged,
\* and clears state_dirty.
C27_RebuildIffDirtyOrUnbuilt ==
  \A saved \in BOOLEAN :
    IF manifest_dirty
      THEN DirtyCall(saved)
      ELSE /\ Updated(saved).timestamp = timestamp
           /\ Updated(saved).manifest = IF manifest.built THEN manifest ELSE Fresh
           /\ ~Updated(saved).manifest_dirty
           /\ ~Updated(saved).state_dirty

\* Setup ended with a catalog equal to the one of the state file: the
\* buffers were built by a call that found the manifest not dirty, and the
\* timestamp is still the one loaded from the file.
C27_Witness ==
  /\ cur_status = "running"
  /\ manifest.built
  /\ manifest = Fresh
  /\ timestamp = 0
  /\ DOMAIN accounts # {}

\* The disconnect callback of account a runs: its connection was up, it
\* is no longer, and the connection count drops by one.
Disconnected(a) ==
  /\ a \in DOMAIN accounts
  /\ a \in DOMAIN accounts'
  /\ accounts[a].pc \in Connected
  /\ accounts'[a].pc \notin Connected
  /\ num_cm_connections' = num_cm_connections - 1

\* C28: a disconnect callback of an account reconnects its CM client if
\* and only if the account's removal state is none and the status is not
\* stopping; a disconnect in pending_remove moves the account to remove
\* without reconnecting, and no other disconnect changes the removal state.
C28_ReconnectIffKept ==
  [][ \A a \in { 1, 2 } :
        Disconnected(a)
          => /\ accounts'[a].pc = "connecting"
                  <=> ( /\ accounts[a].rem_status = "none"
                        /\ cur_status # "stopping" )
             /\ accounts'[a].rem_status =
                  IF accounts[a].rem_status = "pending_remove"
                    THEN "remove" ELSE accounts[a].rem_status ]_vars

\* The client of an account that is not marked for removal was
\* disconnected while the server was stopping and stays idle, and the
\* client of an invalidated account was disconnected and is removable.
C28_Witness ==
  /\ cur_status = "stopping"
  /\ \E a \in DOMAIN accounts :
       accounts[a].rem_status = "none" /\ accounts[a].pc = "idle"
  /\ \E a \in DOMAIN accounts :
       accounts[a].rem_status = "remove" /\ accounts[a].pc = "idle"

\* --------------------------------------------------- burst specification

\* One account owns depots 10 to MaxDepot of app 1 and the state file holds
\* no key: its harvest takes more than one burst.  Key requests get every
\* kind of result, the connection may drop at any time and the server may
\* be stopped.
BurstDepotIds == 10..MaxDepot

PkgOwnsAll == [ PkgOwnsTen EXCEPT !.depotids = BurstDepotIds ]

AppInfoAll ==
  [ result |-> Ok,
    entries |-> << [ id |-> 1, result |-> Ok,
                     vdf |-> Vdf(TRUE, "n1", 0, BurstDepotIds) ] >> ]

InitBurst ==
  /\ http_bufs = PlainBufs
  /\ now = T0
  /\ ts3_init(FileBare, T0)

NextBurst ==
  \/ \E a \in DOMAIN accounts : cb_connected(a, Ok, TRUE)
  \/ \E a \in DOMAIN accounts : cb_signed_in(a, Ok)
  \/ \E a \in DOMAIN accounts : cb_lics(a, Ok, 1)
  \/ \E a \in DOMAIN accounts : cb_package_info(a, PkgOwnsAll)
  \/ \E a \in DOMAIN accounts : cb_access_tokens(a, TokensOk)
  \/ \E a \in DOMAIN accounts : cb_app_info(a, AppInfoAll)
  \/ \E a \in DOMAIN accounts : \E i \in accounts[a].dk_sent, res \in KeyResults :
       cb_depot_key(a, i, res)
  \/ \E a \in DOMAIN accounts : Drops(a) /\ cb_disconnected(a)
  \/ ts3_stop
  \/ EventWaitCancelled

SpecBurst == InitBurst /\ [][NextBurst]_vars

\* Account a harvests: it is online with a request array.
Harvesting(accs, a) ==
  /\ a \in DOMAIN accs
  /\ accs[a].pc = "online"
  /\ accs[a].depot_key_requests # << >>

\* The indices of the request array that have been issued.
Issued(acc) == (acc.rem_dk_total + 1)..Len(acc.depot_key_requests)

\* The requests of an account's current burst that are unanswered, and
\* the excess of rem_dk_burst over them.
Outstanding(acc) == Cardinality(acc.dk_sent)
Uncounted(acc) == acc.rem_dk_burst - Outstanding(acc)

\* How a step issues requests for account a: only when the last request of
\* the previous burst is being answered, min(5, remaining) at a time, none
\* of them issued before; and the harvest ends only when every entry was
\* issued and the last one is being answered.
IssuesInBursts(a) ==
  LET acc == accounts[a]
      new == accounts'[a].dk_sent \ acc.dk_sent
  IN /\ ( /\ Harvesting(accounts, a)
          /\ Harvesting(accounts', a)
          /\ new # {} )
          => /\ Outstanding(acc) = 1
             /\ accounts'[a].dk_sent = new
             /\ Cardinality(new) = Min2(5, acc.rem_dk_total)
             /\ new \cap Issued(acc) = {}
             /\ Issued(accounts'[a]) = Issued(acc) \cup new
     /\ ( /\ Harvesting(accounts, a)
          /\ a \in DOMAIN accounts'
          /\ accounts'[a].pc = "online"
          /\ accounts'[a].depot_key_requests = << >> )
          => /\ acc.rem_dk_total = 0
             /\ Outstanding(acc) = 1
     /\ ( /\ ~Harvesting(accounts, a)
          /\ Harvesting(accounts', a) )
          => /\ Outstanding(accounts'[a]) =
                  Min2(5, Len(accounts'[a].depot_key_requests))
             /\ Issued(accounts'[a]) = accounts'[a].dk_sent

\* The original statement of C29: while an account harvests depot keys it
\* has at most 5 requests outstanding and rem_dk_burst always equals the
\* number of unanswered requests of the current burst, never negative;
\* requests are issued burst after burst, each entry once.
C29_BurstsOfFive ==
  /\ [](\A a \in { 1 } :
          Harvesting(accounts, a)
            => /\ Outstanding(accounts[a]) <= 5
               /\ accounts[a].rem_dk_burst >= 0
               /\ Uncounted(accounts[a]) = 0)
  /\ [][ \A a \in { 1 } : IssuesInBursts(a) ]_vars

\* C29 (amended): while an account harvests depot keys it has at most 5
\* requests outstanding and rem_dk_burst, never negative and at most 5, is
\* the number of unanswered requests of the current burst plus the number
\* of its responses that arrived while the status was stopping, which are
\* dropped without being counted; requests are issued only when the last
\* request of the previous burst is answered, min(5, remaining) at a time,
\* each entry once.
C29_BurstsOfFiveCounted ==
  /\ [](\A a \in { 1 } :
          Harvesting(accounts, a)
            => /\ Outstanding(accounts[a]) <= 5
               /\ accounts[a].rem_dk_burst >= 0
               /\ accounts[a].rem_dk_burst <= 5
               /\ Uncounted(accounts[a]) >= 0)
  /\ [][ \A a \in { 1 } :
           /\ IssuesInBursts(a)
           /\ (~Harvesting(accounts, a) /\ Harvesting(accounts', a))
                => Uncounted(accounts'[a]) = 0
           /\ (Harvesting(accounts, a) /\ Harvesting(accounts', a))
                => Uncounted(accounts'[a]) =
                     Uncounted(accounts[a])
                       + IF /\ cur_status = "stopping"
                            /\ accounts'[a].dk_sent # accounts[a].dk_sent
                           THEN 1 ELSE 0 ]_vars

\* The second burst of a harvest is outstanding: the first five requests
\* were answered and counted, the sixth is issued.
C29_Witness ==
  /\ Harvesting(accounts, 1)
  /\ Len(accounts[1].depot_key_requests) > 5
  /\ accounts[1].rem_dk_total = 0
  /\ accounts[1].dk_sent = { 1 }
  /\ accounts[1].rem_dk_burst = 1

\* The response res to request i of account a is handled while the
\* server is not stopping.
KeyResponse(a, i, res) ==
  /\ cur_status # "stopping"
  /\ cb_depot_key(a, i, res)

\* The step leaves request i of account a outstanding and changes nothing.
Resent(a, i) ==
  /\ accounts' = accounts
  /\ i \in accounts'[a].dk_sent
  /\ depot_keys' = depot_keys
  /\ manifest_dirty' = manifest_dirty

\* The step counts request i of account a as answered and keeps the
\* connection.
Counted(a, i) ==
  /\ accounts'[a].pc = "online"
  /\ i \notin accounts'[a].dk_sent
  /\ \/ accounts'[a].rem_dk_burst = accounts[a].rem_dk_burst - 1
     \/ accounts[a].rem_dk_burst = 1

\* The step stores the key of depot d and marks the manifest dirty (a
\* manifest that is rebuilt in the same step is stamped now).
Stored(d) ==
  /\ d \in depot_keys'
  /\ \/ manifest_dirty'
     \/ manifest' = Serialize(apps', depot_keys') /\ timestamp' = now

\* C30: a depot-key response that is a cm_timeout leaves the request
\* outstanding (it is re-sent) and is not counted; the Steam CM result
\* blocked is counted as answered, stores no key and keeps the connection;
\* every other failure, any other Steam CM result included, disconnects the
\* account's CM client; a success is counted, stores the key and marks the
\* manifest dirty.
C30_DepotKeyByClass ==
  [][ \A a \in { 1 }, i \in 1..(MaxDepot - 9), res \in KeyResults :
        KeyResponse(a, i, res)
          => IF res.ok
               THEN Counted(a, i) /\ Stored(accounts[a].depot_key_requests[i][2])
             ELSE IF res.type = "sub" /\ res.aux = "cm_timeout"
               THEN Resent(a, i)
             ELSE IF res.type = "steam_cm" /\ res.aux = "blocked"
               THEN Counted(a, i) /\ depot_keys' = depot_keys
             ELSE accounts'[a].pc = "disconnecting" ]_vars

\* ------------------------------------------- missing-key specification

\* One account owns depot 10 of app 1 and the state file holds no key; the
\* app info names no workshop depot, the workshop depot 11, or the workshop
\* depot 10, which is also a numbered depot of the app.
WorkshopDepots == { 0, 10, 11 }

NextDup ==
  \/ \E a \in DOMAIN accounts : cb_connected(a, Ok, TRUE)
  \/ \E a \in DOMAIN accounts : cb_signed_in(a, Ok)
  \/ \E a \in DOMAIN accounts : cb_lics(a, Ok, 1)
  \/ \E a \in DOMAIN accounts : cb_package_info(a, PkgOwnsTen)
  \/ \E a \in DOMAIN accounts : cb_access_tokens(a, TokensOk)
  \/ \E a \in DOMAIN accounts, w \in WorkshopDepots : cb_app_info(a, AppInfoOf(w))
  \/ \E a \in DOMAIN accounts : \E i \in accounts[a].dk_sent, res \in KeyResults :
       cb_depot_key(a, i, res)
  \/ \E a \in DOMAIN accounts : Drops(a) /\ cb_disconnected(a)

SpecDup == InitBurst /\ [][NextDup]_vars

\* C31: the request array of every harvest is sorted and names each depot
\* id at most once, so no depot key is requested twice within one harvest.
C31_MissingKeysSortedOnce ==
  \A a \in DOMAIN accounts :
    LET r == accounts[a].depot_key_requests
    IN \A i, j \in 1..Len(r) :
         i < j => ~PairLess(r[j], r[i]) /\ r[i][2] # r[j][2]

\* ------------------------------------------------- renewal-timer claims

\* lws_sul_cancel(&acc.sul) of the renewal-job pass of the wake-up handler.
SulCancelled(accs, s) ==
  accs[s].rem_status = "remove" /\ accs[s].ren_status = "scheduled"

\* lws_sul2_schedule(.., &acc.sul) of the same pass: the else-branch tests
\* the renewal status only.
SulScheduled(accs, s) ==
  ~SulCancelled(accs, s) /\ accs[s].ren_status = "pending_schedule"

\* The job of account s is in the scheduler of lws when the pass is over.
SulArmed(accs, s) ==
  \/ accs[s].ren_status = "scheduled" /\ ~SulCancelled(accs, s)
  \/ SulScheduled(accs, s)

\* C32: a run of the wake-up handler leaves no renewal job scheduled for an
\* account that it erases from the account map, whatever the renewal status
\* of the account was when the run began.
C32_NoTimerForReapedAccount ==
  [][ (proc = "run" /\ wake /\ ~wake' /\ cur_status # "stopping")
        => \A s \in DOMAIN accounts \ DOMAIN accounts' :
             ~SulArmed(accounts, s) ]_vars

PkgTwoApps ==
  [ PkgOwnsTen EXCEPT !.depotids = { 10, 11 }, !.appids = { 1, 2 } ]

AppInfoTwo(ok1, ok2) ==
  [ result |-> Ok,
    entries |-> << [ id |-> 1, result |-> Ok, vdf |-> Vdf(ok1, "n1", 0, {10}) ],
                   [ id |-> 2, result |-> Ok, vdf |-> Vdf(ok2, "n2", 0, {11}) ] >> ]

NextVdf ==
  \/ \E a \in DOMAIN accounts : cb_connected(a, Ok, TRUE)
  \/ \E a \in DOMAIN accounts : cb_signed_in(a, Ok)
  \/ \E a \in DOMAIN accounts : cb_lics(a, Ok, 1)
  \/ \E a \in DOMAIN accounts : cb_package_info(a, PkgTwoApps)
  \/ \E a \in DOMAIN accounts : cb_access_tokens(a, TokensOk)
  \/ \E a \in DOMAIN accounts, ok1, ok2 \in BOOLEAN :
       cb_app_info(a, AppInfoTwo(ok1, ok2))
  \/ \E a \in DOMAIN accounts : \E i \in accounts[a].dk_sent, res \in KeyResults :
       cb_depot_key(a, i, res)
  \/ \E a \in DOMAIN accounts : Drops(a) /\ cb_disconnected(a)

SpecVdf == InitBurst /\ [][NextVdf]_vars

\* C34: an app entry whose text VDF does not parse is skipped: the entries
\* that parse still enter the catalog, the account is counted ready and
\* stays connected.
C34_ParseErrorSkipsEntry ==
  [][ \A ok1, ok2 \in BOOLEAN :
        cb_app_info(1, AppInfoTwo(ok1, ok2))
          => /\ accounts'[1].pc = "online"
             /\ accounts'[1].ready
             /\ ok1 => 1 \in DOMAIN apps'
             /\ ok2 => 2 \in DOMAIN apps' ]_vars

\* ------------------------------------------------ lock-order specification

\* A client signs in over /signin with credentials while other clients
\* download the manifest in chunks.
LockFrames ==
  { Frame(FALSE, TRUE, Msg("credentials", { "account_name", "password" })) }

\* The sign-in completes with a token of account 3, which is not loaded.
LockEvents ==
  { AuthEvent("completed", Ok,
              [ steam_id |-> 3, renewable |-> FALSE, serial |-> s_ctx.serial ]) }

LockRequests == { Req("/manifest", "GET", NoIms, FALSE, 0, 0, 0) }

InitLock ==
  /\ http_bufs = BigBufs
  /\ now = T0
  /\ ts3_init(FileSolo, T0)

NextLock ==
  \/ \E a \in DOMAIN accounts : cb_connected(a, Ok, TRUE)
  \/ \E a \in DOMAIN accounts : cb_signed_in(a, Ok)
  \/ \E a \in DOMAIN accounts : cb_lics(a, Ok, 1)
  \/ \E a \in DOMAIN accounts : cb_package_info(a, PkgOwnsTen)
  \/ \E a \in DOMAIN accounts : cb_access_tokens(a, TokensOk)
  \/ \E a \in DOMAIN accounts : cb_app_info(a, AppInfoOf(0))
  \/ ws_established
  \/ \E f \in LockFrames : ws_receive(f, TRUE)
  \/ ws_writeable(TRUE)
  \/ ws_writeable_wait
  \/ ws_closed
  \/ ws_closed_end
  \/ cb_auth_connected(Ok)
  \/ \E ev \in LockEvents : cb_auth(ev)
  \/ cb_auth_disconnected_wait
  \/ cb_auth_disconnected(FALSE)
  \/ \E c \in Connections, req \in LockRequests, room \in 1..MaxRoom :
       http_manifest(c, req, room, TRUE)
  \/ \E c \in Connections : http_writeable(c, TRUE)
  \/ EventWaitCancelled

SpecLock == InitLock /\ [][NextLock]_vars

\* The event loop holds manifest_mtx through the download lock and waits
\* for ctx.mtx (conn open) or for the state disonnected (conn closed_wait),
\* while cb_auth_disconnected holds ctx.mtx and waits for manifest_mtx.
Deadlocked ==
  /\ download_lock.locked
  /\ proc = "blocked"
  /\ s_ctx.conn \in { "open", "closed_wait" }
  /\ s_ctx.cm = "merging"

\* C35: the event loop and the CM thread never wait for each other: the
\* loop, holding manifest_mtx through the download lock of an unfinished
\* chunked send, never waits for a sign-in context's mutex or for that
\* context to become disonnected while cb_auth_disconnected holds the
\* context's mutex and waits for manifest_mtx.
C35_NoLoopCmDeadlock == ~Deadlocked

\* C36: once cur_status is stopping it keeps that value: no CM callback and
\* no reap step of the event loop stores running over it.
C36_StoppingIsFinal ==
  [][ cur_status = "stopping" => cur_status' = "stopping" ]_vars

\* C37: cb_mrc is never delivered after the /mrc handler that issued the
\* fetch has returned: once the handler's wait is over, no step sets
\* entry.finished of its await entry.
C37_NoCompletionAfterReturn ==
  [][ ~( /\ entry.st = "done" /\ entry'.st = "done"
         /\ ~entry.finished /\ entry'.finished ) ]_vars

\* The messages that do not end a sign-in: a QR url, a confirmations list.
NonFinal == { "url", "confirmations" }

\* C38: a non-final sign-in message is written to the WebSocket exactly
\* once: the writeable callback writes only a message that has not been
\* written yet, and no callback stores a message over a non-final one that
\* has not been written.
C38_NonFinalSentOnce ==
  [][ /\ ( /\ Len(s_ctx'.sent) > Len(s_ctx.sent)
           /\ s_ctx.msg \in NonFinal )
        => s_ctx.unsent
      /\ ( /\ s_ctx.msg \in NonFinal
           /\ s_ctx.unsent
           /\ s_ctx.conn = "open"
           /\ s_ctx'.serial = s_ctx.serial )
        => \/ s_ctx'.msg = s_ctx.msg /\ s_ctx'.unsent
           \/ Len(s_ctx'.sent) > Len(s_ctx.sent) ]_vars

\* ------------------------------------------------ readiness specification

\* Every CM request of every account succeeds; the license list of an
\* account is empty or holds one package.  The token of account 1 is
\* renewable and far from expiry, so that its renewal job is scheduled.
LicenseCounts == { 0, 1 }

LiveStep(a) ==
  \/ cb_connected(a, Ok, TRUE)
  \/ cb_signed_in(a, Ok)
  \/ \E n \in LicenseCounts : cb_lics(a, Ok, n)
  \/ cb_package_info(a, PkgOwnsTen)
  \/ cb_access_tokens(a, TokensOk)
  \/ cb_app_info(a, AppInfoOf(0))
  \/ \E i \in accounts[a].dk_sent : cb_depot_key(a, i, Ok)

NextLive ==
  \/ \E a \in DOMAIN accounts : LiveStep(a)
  \/ EventWaitCancelled

\* The CM thread delivers the callback each account is waiting for and the
\* event loop handles a pending wake-up.
FairLive ==
  /\ WF_vars(EventWaitCancelled)
  /\ \A a \in { 1, 2 } : WF_vars(a \in DOMAIN accounts /\ LiveStep(a))

SpecLive == InitFail /\ [][NextLive]_vars /\ FairLive

\* C39: with accounts loaded (the status starts as setup) and every CM
\* request of every account succeeding, the status eventually becomes
\* running, whatever the license lists hold.
C39_SetupEndsRunning == (cur_status = "setup") ~> (cur_status = "running")

\* ---------------------------------------------------- name specification

\* The account of a state file that holds every key reconnects now and
\* then; Steam reports app 1 under one of two names.
AppNames == { "n1", "n2" }

AppInfoNamed(n) ==
  [ result |-> Ok,
    entries |-> << [ id |-> 1, result |-> Ok, vdf |-> Vdf(TRUE, n, 0, {10}) ] >> ]

NextName ==
  \/ \E a \in DOMAIN accounts : cb_connected(a, Ok, TRUE)
  \/ \E a \in DOMAIN accounts : cb_signed_in(a, Ok)
  \/ \E a \in DOMAIN accounts : cb_lics(a, Ok, 1)
  \/ \E a \in DOMAIN accounts : cb_package_info(a, PkgOwnsTen)
  \/ \E a \in DOMAIN accounts : cb_access_tokens(a, TokensOk)
  \/ \E a \in DOMAIN accounts, n \in AppNames : cb_app_info(a, AppInfoNamed(n))
  \/ \E a \in DOMAIN accounts : Drops(a) /\ cb_disconnected(a)
  \/ \E req \in PlainRequests : http(req, FetchOk(0), "stale")

SpecName == InitMrc /\ [][NextName]_vars

\* No depot key request of any account is outstanding or still to be sent.
NoHarvest ==
  \A a \in DOMAIN accounts :
    accounts[a].rem_dk_total = 0 /\ accounts[a].dk_sent = {}

\* C40: while running with no key harvest in flight, manifest_dirty is
\* false and the manifest buffers are the serialization of the catalog:
\* app ids, app names, depot ids per app and depot keys.
C40_ManifestMatchesCatalog ==
  (cur_status = "running" /\ NoHarvest)
    => /\ ~manifest_dirty
       /\ manifest = Serialize(apps, depot_keys)

====
